---------------------------- MODULE Spec2Model ----------------------------
(***************************************************************************)
(* A model of the haven / firefly beamline control layer: the fly-scan     *)
(* stream merging (FlyerCollector, FlyerMixin.fly_data), the fly-scan      *)
(* plans (fly_line_scan, Snaker), the configuration loader, the device     *)
(* factory and instrument loaders, the run browser's database tasks, the   *)
(* motor loader and the motor's naming, the ion chamber's pre-amplifier    *)
(* gain and its flyer interface, the metadata of grid_fly_scan and the     *)
(* run engine.  Each subsystem has its own variables, its own              *)
(* initial condition and its own specification; the variables of the other *)
(* subsystems are parked at a fixed value while one subsystem runs.        *)
(***************************************************************************)
EXTENDS Integers, Sequences, FiniteSets, TLC

VARIABLES
    \* FlyerCollector.collect()
    primary_flyers,     \* the collector's primary flyers, in order
    streams,            \* what each primary flyer's collect() yields
    collections,        \* per primary flyer: how many datums were taken
    events,             \* the events collect() has yielded so far
    collect_pc,         \* "ready" | "running" | "done"
    extra_reading,      \* the current reading of the extra signal
    \* FlyerMixin: kickoff(), save_fly_datum(), complete(), fly_data()
    fly_now,            \* the clock the signals are stamped with
    sig_state,          \* per signal: its current value and timestamp
    subs,               \* the signals save_fly_datum is subscribed to
    fly_buffer,         \* self._fly_data: per signal, the buffered fly events
    fly_frames,         \* what fly_data() returned
    fly_pc,             \* "idle" | "flying" | "completed" | "compiled" | "collected"
    sig_kind,           \* per signal: its kind
    fly_events,         \* what collect() yielded
    \* fly_scan, grid_fly_scan and the Snaker
    plan,               \* the plan's arguments
    plan_pc,            \* where the plan's generator stands
    pending,            \* the messages the running plan stub has yet to yield
    msgs,               \* the messages yielded so far
    reverse,            \* Snaker.reverse
    calls,              \* how many times the Snaker was called
    pos_cache,          \* where the step motor was moved last
    \* load_config()
    cfg_files,          \* per path: whether the file exists, and its tables
    cfg_idx,            \* how many paths the for-loop has been through
    config,             \* the mapping built so far
    cfg_pc,             \* "loading" | "returned"
    \* make_device() and await_for_connection()
    dev_registry,       \* the devices the instrument registry holds
    dev_pc,             \* per device: "new" | "polling" | "sleeping" | "returned"
    dev_result,         \* per device: what make_device returned
    sig_connected,      \* per device: whether all its signals are connected
    pending_funcs,      \* per device: whether a required operation is pending
    connected,          \* per device: await_for_connection's local flag
    loop_idx,           \* per device: await_for_connection's loop count
    expired,            \* per device: whether elapsed_time > timeout was seen
    \* load_instrument()
    registries,         \* per registry: the devices it holds
    target,             \* the registry given to load_instrument()
    inst_config,        \* the loaders the configuration has a device for
    inst_idx,           \* how many loaders have run
    inst_pc,            \* "called" | "loading" | "returned"
    created,            \* the devices this call has created
    \* RunBrowserDisplay.db_task()
    db_tasks,           \* every asyncio task db_task() has made, oldest first
    running_db_tasks,   \* per name: the task registered last, 0 if none
    \* load_motors()
    motor_registry,     \* the devices in the registry given to load_motors()
    motor_config,       \* the items of config["motor"], in order
    descriptions,       \* per motor record: what its .DESC field resolves to
    defns,              \* the motor definitions
    motor_pc,           \* where load_motors() is
    motor_idx,          \* how many definitions the creation loop has seen
    devices,            \* the devices created so far
    missing_channels,   \* prefixes skipped for an unavailable description
    unnamed_channels,   \* prefixes skipped for an empty description
    motor_warnings,     \* the warnings issued
    \* Motor.connect()
    mc_name,            \* the motor's name
    mc_auto_name,       \* the auto_name argument: "True" | "False" | "None"
    mc_description,     \* what reading the description signal gives
    mc_pc,              \* "made" | "connected" | "done" | "raised"
    mc_old_name,        \* the name when connect() was called
    mc_connects,        \* how often connect() was called
    mc_warned,          \* whether this connect() warned
    \* IonChamberPreAmplifier.gain_level
    pa_sensitivity_value,   \* the sensitivity_value signal, an index
    pa_sensitivity_unit,    \* the sensitivity_unit signal, an index
    pa_offset_value,        \* the offset_value signal
    pa_offset_unit,         \* the offset_unit signal
    pa_put,                 \* the gain level written last, if any
    pa_raised,              \* whether that write raised GainOverflow
    pa_read,                \* the gain level read last, if any
    pa_pc,                  \* "idle"
    \* IonChamber as a flyer
    ic_now,             \* the wall clock
    ic_acquiring,       \* whether the scaler is acquiring
    ic_mca,             \* the scaler's spectrum of counts, one per channel
    ic_mca_times,       \* the scaler's spectrum of clock ticks, one per channel
    ic_channel_ts,      \* the timestamp of the current_channel signal
    ic_subs,            \* how many times record_timestamp is subscribed
    ic_start_timestamp, \* start_timestamp, <<>> for None
    ic_timestamps,      \* the timestamps record_timestamp has recorded
    ic_events,          \* what collect() generated
    ic_flights,         \* how many times kickoff() was called
    ic_pc,              \* "idle" | "flying" | "complete" | "collected"
    \* grid_fly_scan(): the snaked axes and the metadata
    gs_args,            \* the arguments of grid_fly_scan
    gs_snake_steppers,  \* snake_steppers, what bp.grid_scan is given
    gs_snake_flyer,     \* snake_flyer, what the Snaker is given
    gs_snaking,         \* snaking
    gs_md,              \* md_, the metadata of the run
    gs_reverse,         \* the Snaker's reverse
    gs_lines,           \* the range of every line the Snaker has flown
    gs_pc,              \* "start" | "metadata" | "scan" | "done"
    \* RunEngine.__init__()
    re_args,            \* connect_databroker, the configuration files, the catalogs
    re_subs,            \* the callbacks subscribed to the engine
    re_reads,           \* how many times the configuration was loaded
    re_catalog_name,    \* catalog_name, <<>> before it is read
    re_pc               \* "new" | "config" | "catalog" | "subscribe" | "constructed" | "raised"

collectVars == <<primary_flyers, streams, collections, events, collect_pc,
                 extra_reading>>

flyerVars ==
    <<fly_now, sig_state, subs, fly_buffer, fly_frames, fly_pc, sig_kind,
      fly_events>>

planVars == <<plan, plan_pc, pending, msgs, reverse, calls, pos_cache>>

configVars == <<cfg_files, cfg_idx, config, cfg_pc>>

deviceVars == <<dev_registry, dev_pc, dev_result, sig_connected, pending_funcs,
                connected, loop_idx, expired>>

instrumentVars == <<registries, target, inst_config, inst_idx, inst_pc, created>>

browserVars == <<db_tasks, running_db_tasks>>

motorVars == <<motor_registry, motor_config, descriptions, defns, motor_pc,
               motor_idx, devices, missing_channels, unnamed_channels,
               motor_warnings>>

connectVars == <<mc_name, mc_auto_name, mc_description, mc_pc, mc_old_name,
                 mc_connects, mc_warned>>

preampVars == <<pa_sensitivity_value, pa_sensitivity_unit, pa_offset_value, pa_offset_unit, pa_put, pa_raised, pa_read, pa_pc>>

ionChamberVars == <<ic_now, ic_acquiring, ic_mca, ic_mca_times, ic_channel_ts, ic_subs, ic_start_timestamp, ic_timestamps, ic_events, ic_flights, ic_pc>>

gridVars == <<gs_args, gs_snake_steppers, gs_snake_flyer, gs_snaking, gs_md, gs_reverse, gs_lines, gs_pc>>

engineVars == <<re_args, re_subs, re_reads, re_catalog_name, re_pc>>

vars ==
    <<collectVars, flyerVars, planVars, configVars, deviceVars,
      instrumentVars, browserVars, motorVars, connectVars, preampVars,
      ionChamberVars, gridVars, engineVars>>

\* what an action of one subsystem leaves alone
notEngine ==
    <<collectVars, flyerVars, planVars, configVars, deviceVars,
      instrumentVars, browserVars, motorVars, connectVars, preampVars,
      ionChamberVars, gridVars>>
notGrid ==
    <<collectVars, flyerVars, planVars, configVars, deviceVars,
      instrumentVars, browserVars, motorVars, connectVars, preampVars,
      ionChamberVars, engineVars>>
notIonChamber ==
    <<collectVars, flyerVars, planVars, configVars, deviceVars,
      instrumentVars, browserVars, motorVars, connectVars, preampVars,
      gridVars, engineVars>>
notPreamp ==
    <<collectVars, flyerVars, planVars, configVars, deviceVars,
      instrumentVars, browserVars, motorVars, connectVars, ionChamberVars,
      gridVars, engineVars>>
notConnect ==
    <<collectVars, flyerVars, planVars, configVars, deviceVars,
      instrumentVars, browserVars, motorVars, preampVars, ionChamberVars,
      gridVars, engineVars>>
notCollect ==
    <<flyerVars, planVars, configVars, deviceVars, instrumentVars,
      browserVars, motorVars, connectVars, preampVars, ionChamberVars,
      gridVars, engineVars>>
notFlyer ==
    <<collectVars, planVars, configVars, deviceVars, instrumentVars,
      browserVars, motorVars, connectVars, preampVars, ionChamberVars,
      gridVars, engineVars>>
notPlan ==
    <<collectVars, flyerVars, configVars, deviceVars, instrumentVars,
      browserVars, motorVars, connectVars, preampVars, ionChamberVars,
      gridVars, engineVars>>
notConfig ==
    <<collectVars, flyerVars, planVars, deviceVars, instrumentVars,
      browserVars, motorVars, connectVars, preampVars, ionChamberVars,
      gridVars, engineVars>>
notInstrument ==
    <<collectVars, flyerVars, planVars, configVars, deviceVars, browserVars,
      motorVars, connectVars, preampVars, ionChamberVars, gridVars,
      engineVars>>
notBrowser ==
    <<collectVars, flyerVars, planVars, configVars, deviceVars,
      instrumentVars, motorVars, connectVars, preampVars, ionChamberVars,
      gridVars, engineVars>>
notMotor ==
    <<collectVars, flyerVars, planVars, configVars, deviceVars,
      instrumentVars, browserVars, connectVars, preampVars, ionChamberVars,
      gridVars, engineVars>>
notDevice ==
    <<collectVars, flyerVars, planVars, configVars, instrumentVars,
      browserVars, motorVars, connectVars, preampVars, ionChamberVars,
      gridVars, engineVars>>

(***************************************************************************)
(* Python dictionaries are functions whose domain is the set of keys.      *)
(***************************************************************************)
EmptyDict == [k \in {} |-> 0]

\* dict.update(): the keys of d2 are added to d1, d2 winning on a shared key
DictUpdate(d1, d2) ==
    [k \in (DOMAIN d1) \cup (DOMAIN d2) |->
        IF k \in DOMAIN d2 THEN d2[k] ELSE d1[k]]

\* list(d.values()): the values of a dictionary, one per key
RECURSIVE DictValues(_)
DictValues(d) ==
    IF DOMAIN d = {} THEN <<>>
    ELSE LET k == CHOOSE x \in DOMAIN d : TRUE
             rest == [x \in (DOMAIN d) \ {k} |-> d[x]]
         IN  <<d[k]>> \o DictValues(rest)

\* sorted(): insertion of one number into a sorted sequence
RECURSIVE InsertSorted(_, _)
InsertSorted(x, s) ==
    IF s = <<>> THEN <<x>>
    ELSE IF x <= Head(s) THEN <<x>> \o s
    ELSE <<Head(s)>> \o InsertSorted(x, Tail(s))

RECURSIVE Sorted(_)
Sorted(s) == IF s = <<>> THEN <<>> ELSE InsertSorted(Head(s), Sorted(Tail(s)))

\* min() and max() of a non-empty set of numbers
MinOf(S) == CHOOSE x \in S : \A y \in S : x <= y
MaxOf(S) == CHOOSE x \in S : \A y \in S : x >= y

(***************************************************************************)
(* FlyerCollector.collect()  (haven/plans/fly.py)                          *)
(*                                                                         *)
(* Timestamps are counted in quarter ticks, so that the median of an even  *)
(* number of them, and the median taken after a predicted timestamp was    *)
(* added, are whole numbers.  A reading's value is tagged with the key and *)
(* the position it was produced at, so that a datum merged into the wrong  *)
(* event is visible.                                                       *)
(***************************************************************************)
MaxLen == 2
Stamps == {0, 4, 8}
Detectors == {"det1", "det2"}
PrimaryChoices == {<<"det1">>, <<"det2">>, <<"det1", "det2">>, <<"det2", "det1">>}
secondary_flyers == <<"motor">>
extra_signals == <<"stepper">>
ExtraReadings == {[value |-> 0, timestamp |-> 0], [value |-> 1, timestamp |-> 4]}

\* the data keys of a detector's datum (one per captured signal)
DataKeys(f) == IF f = "det1" THEN {"det1_a"} ELSE {"det2_a", "det2_b"}

\* the k-th datum of a flyer whose signals were stamped ts
MakeDatum(f, k, ts) ==
    [data |-> [key \in DataKeys(f) |-> <<key, k>>], timestamps |-> ts]

\* every stream a flyer's collect() can yield: up to MaxLen datums, each
\* signal's timestamps not decreasing along the stream
StreamsOf(f) ==
    UNION {
        {[k \in 1..n |-> MakeDatum(f, k, ts[k])] :
            ts \in {t \in [1..n -> [DataKeys(f) -> Stamps]] :
                      \A k \in 1..(n - 1) : \A key \in DataKeys(f) :
                          t[k][key] <= t[k + 1][key]}}
        : n \in 0..MaxLen}

\* np.median(): the middle of the sorted values, or the mean of the two
\* middle values
MedianLower(ts) == LET s == Sorted(ts) IN s[(Len(s) + 1) \div 2]

Median(ts) ==
    LET s == Sorted(ts)
        n == Len(s)
    IN  IF n % 2 = 1 THEN s[(n + 1) \div 2]
        ELSE (s[n \div 2] + s[n \div 2 + 1]) \div 2

\* a secondary flyer's predict(timestamp): the datum it would have
\* produced at that time
predict(flyer, timestamp) ==
    [data |-> (flyer :> <<"predicted", timestamp>>),
     timestamps |-> (flyer :> timestamp)]

\* the for-loop over the collections: each datum updates the event
RECURSIVE MergeDatums(_, _)
MergeDatums(flyers, event) ==
    IF flyers = <<>> THEN event
    ELSE LET f == Head(flyers)
             datum == streams[f][collections[f] + 1]
         IN  MergeDatums(Tail(flyers),
                 [data |-> DictUpdate(event.data, datum.data),
                  timestamps |-> DictUpdate(event.timestamps, datum.timestamps)])

\* the for-loop over the secondary flyers
RECURSIVE AddPredictions(_, _, _)
AddPredictions(flyers, curr_timestamp, acc) ==
    IF flyers = <<>> THEN acc
    ELSE LET datum == predict(Head(flyers), curr_timestamp)
         IN  AddPredictions(Tail(flyers), curr_timestamp,
                 [event |-> [data |-> DictUpdate(acc.event.data, datum.data),
                             timestamps |-> DictUpdate(acc.event.timestamps,
                                                       datum.timestamps)],
                  timestamps |-> acc.timestamps \o DictValues(datum.timestamps)])

\* the for-loop over the extra signals: signal.read() is merged unstamped
RECURSIVE AddExtraSignals(_, _)
AddExtraSignals(signals, event) ==
    IF signals = <<>> THEN event
    ELSE AddExtraSignals(Tail(signals),
             [data |-> DictUpdate(event.data, Head(signals) :> extra_reading.value),
              timestamps |-> DictUpdate(event.timestamps,
                                        Head(signals) :> extra_reading.timestamp)])

\* the position of the first primary flyer whose collection is exhausted,
\* 0 when every collection still has a datum
FirstExhausted ==
    LET ex == {i \in 1..Len(primary_flyers) :
                 collections[primary_flyers[i]] >= Len(streams[primary_flyers[i]])}
    IN  IF ex = {} THEN 0 ELSE MinOf(ex)

\* the event one pass of the while-loop yields
BuildEvent ==
    LET merged == MergeDatums(primary_flyers,
                              [data |-> EmptyDict, timestamps |-> EmptyDict])
        timestamps == DictValues(merged.timestamps)
        curr_timestamp == Median(timestamps)
        withSecondary == AddPredictions(secondary_flyers, curr_timestamp,
                             [event |-> merged, timestamps |-> timestamps])
        full == AddExtraSignals(extra_signals, withSecondary.event)
    IN  [data |-> full.data, timestamps |-> full.timestamps,
         time |-> Median(withSecondary.timestamps)]

CollectPark ==
    /\ primary_flyers = <<>>
    /\ streams = [f \in Detectors |-> <<>>]
    /\ collections = [f \in Detectors |-> 0]
    /\ events = <<>>
    /\ collect_pc = "parked"
    /\ extra_reading = [value |-> 0, timestamp |-> 0]

\* collect() was called: one iterator per primary flyer, nothing taken yet
CollectInit ==
    /\ primary_flyers \in PrimaryChoices
    /\ streams \in {s \in [Detectors -> UNION {StreamsOf(f) : f \in Detectors}] :
                      \A f \in Detectors :
                          IF \E i \in 1..Len(primary_flyers) : primary_flyers[i] = f
                          THEN s[f] \in StreamsOf(f) ELSE s[f] = <<>>}
    /\ collections = [f \in Detectors |-> 0]
    /\ events = <<>>
    /\ collect_pc = "running"
    /\ extra_reading \in ExtraReadings

\* one pass of the while-loop that yields an event
CollectYield ==
    /\ collect_pc = "running"
    /\ FirstExhausted = 0
    /\ events' = Append(events, BuildEvent)
    /\ collections' = [f \in Detectors |->
            IF \E i \in 1..Len(primary_flyers) : primary_flyers[i] = f
            THEN collections[f] + 1 ELSE collections[f]]
    /\ UNCHANGED <<primary_flyers, streams, collect_pc, extra_reading>>
    /\ UNCHANGED notCollect

\* one pass of the while-loop that meets StopIteration: the flyers before
\* the exhausted one have each given up one more datum
CollectStop ==
    /\ collect_pc = "running"
    /\ FirstExhausted # 0
    /\ collections' = [f \in Detectors |->
            IF \E i \in 1..(FirstExhausted - 1) : primary_flyers[i] = f
            THEN collections[f] + 1 ELSE collections[f]]
    /\ collect_pc' = "done"
    /\ UNCHANGED <<primary_flyers, streams, events, extra_reading>>
    /\ UNCHANGED notCollect

\* the extra signal (a step motor) takes a new reading between two events
ExtraSignalChange ==
    /\ collect_pc = "running"
    /\ \E r \in ExtraReadings \ {extra_reading} : extra_reading' = r
    /\ UNCHANGED <<primary_flyers, streams, collections, events, collect_pc>>
    /\ UNCHANGED notCollect

CollectNext == CollectYield \/ CollectStop \/ ExtraSignalChange

\* the timestamps of the k-th datum of every primary flyer, as one list
RECURSIVE PrimaryStamps(_, _)
PrimaryStamps(flyers, k) ==
    IF flyers = <<>> THEN <<>>
    ELSE DictValues(streams[Head(flyers)][k].timestamps)
             \o PrimaryStamps(Tail(flyers), k)

\* m is the median of the numbers of s: fewer than half of them lie on
\* either side of a value that occurs, and a value that does not occur
\* lies midway between the two halves
IsMedian(m, s) ==
    LET n == Len(s)
        lows == {i \in 1..n : s[i] < m}
        highs == {i \in 1..n : s[i] > m}
    IN  IF \E i \in 1..n : s[i] = m
        THEN 2 * Cardinality(lows) < n /\ 2 * Cardinality(highs) < n
        ELSE /\ 2 * Cardinality(lows) = n
             /\ 2 * Cardinality(highs) = n
             /\ 2 * m = MaxOf({s[i] : i \in lows}) + MinOf({s[i] : i \in highs})

\* the k-th event holds the k-th datum of every primary flyer and, for every
\* secondary flyer, the datum predicted for the median of those timestamps
C1_EventOfDatums(k) ==
    /\ \A i \in 1..Len(primary_flyers) :
          LET f == primary_flyers[i] IN
          /\ k <= Len(streams[f])
          /\ \A key \in DOMAIN streams[f][k].data :
                /\ key \in DOMAIN events[k].data
                /\ events[k].data[key] = streams[f][k].data[key]
                /\ events[k].timestamps[key] = streams[f][k].timestamps[key]
    /\ \E m \in 0..MaxOf(Stamps) :
          /\ IsMedian(m, PrimaryStamps(primary_flyers, k))
          /\ \A j \in 1..Len(secondary_flyers) :
                LET fl == secondary_flyers[j] IN
                /\ fl \in DOMAIN events[k].data
                /\ events[k].data[fl] = predict(fl, m).data[fl]
                /\ events[k].timestamps[fl] = predict(fl, m).timestamps[fl]

\* the event a step yields holds the reading every extra signal had when
\* the event was made
C1_ExtraRead ==
    Len(events') = Len(events) + 1 =>
        \A j \in 1..Len(extra_signals) :
            LET sig == extra_signals[j]
                ev == events'[Len(events')]
            IN  /\ sig \in DOMAIN ev.data
                /\ ev.data[sig] = extra_reading.value
                /\ ev.timestamps[sig] = extra_reading.timestamp

\* C1: for every k, the k-th event collect() yields contains the data and
\* timestamps of the k-th datum of every primary flyer, the datum each
\* secondary flyer predicts for the median of that event's primary
\* timestamps, and the current reading of every extra signal.
C1_CollectMerges ==
    /\ [](\A k \in 1..Len(events) : C1_EventOfDatums(k))
    /\ [][C1_ExtraRead]_vars

\* two events were yielded from two primary flyers whose second datums
\* carry different timestamps, with the extra signal read at its new value
C1_Witness ==
    /\ Len(events) = 2
    /\ Len(primary_flyers) = 2
    /\ events[2].timestamps["det1_a"] # events[2].timestamps["det2_a"]
    /\ events[2].timestamps["det2_a"] # events[2].timestamps["det2_b"]
    /\ events[1].data["stepper"] # events[2].data["stepper"]
    /\ collect_pc = "done"

(***************************************************************************)
(* FlyerMixin  (haven/devices/detectors/flyer_threaded.py)                 *)
(*                                                                         *)
(* A detector with three signals: the camera's array counter, a          *)
(* region-of-interest sum and a gain.  Every signal has a kind and is      *)
(* stamped by the clock when it changes; the array counter counts frames   *)
(* up by one.                                                              *)
(***************************************************************************)
MaxTime == 3
KindOmitted == 0
KindNormal == 1
KindConfig == 2
KindHinted == 5
array_counter == "array_counter"
\* the detector's signals in the order walk_signals() visits them
DetectorSignals == <<array_counter, "roi_sum", "gain">>
\* the kinds the signals may have been given: every signal has every kind
\* in one of them
KindLayouts ==
    {[array_counter |-> KindConfig, roi_sum |-> KindHinted, gain |-> KindConfig],
     [array_counter |-> KindOmitted, roi_sum |-> KindNormal, gain |-> KindOmitted],
     [array_counter |-> KindNormal, roi_sum |-> KindConfig, gain |-> KindHinted],
     [array_counter |-> KindHinted, roi_sum |-> KindOmitted, gain |-> KindNormal]}
SignalKind(sig) == sig_kind[sig]
CounterStarts == {0, 7}
SignalValues == {0, 1}
NaN == <<>>
TieBreaks == {"first", "last"}

SeqToSet(s) == {s[i] : i \in 1..Len(s)}
Abs(x) == IF x < 0 THEN -x ELSE x

\* bool(kind): any bit of the kind
HasAnyBit(kind) == kind # 0

\* bool(kind & Kind.normal): bit 0 of the kind
HasNormalBit(kind) == kind % 2 = 1

\* walk_fly_signals(): the array counter whatever its kind, and the signals
\* whose kind includes normal
IsFlySignal(sig) == sig = array_counter \/ HasNormalBit(SignalKind(sig))
walk_fly_signals == SelectSeq(DetectorSignals, IsFlySignal)

\* fly_event(timestamp, value)
fly_event(timestamp, value) == [timestamp |-> timestamp, value |-> value]

\* the reference frame: the counter's buffer with 2 taken off every count
image_counter ==
    [i \in 1..Len(fly_buffer[array_counter]) |->
        [timestamps |-> fly_buffer[array_counter][i].timestamp,
         image_counter |-> fly_buffer[array_counter][i].value - 2]]

EarlierRows(ts) ==
    LET before == {i \in 1..Len(image_counter) : image_counter[i].timestamps <= ts}
    IN  IF before = {} THEN {1} ELSE {MaxOf(before)}

\* get_image_num(ts): the image number of the row that comes first when the
\* rows are sorted by their distance to ts; a sort that is not stable may
\* put either of two rows at the same distance first
NearestRows(ts) ==
    {i \in 1..Len(image_counter) :
        \A j \in 1..Len(image_counter) :
            Abs(image_counter[i].timestamps - ts)
                <= Abs(image_counter[j].timestamps - ts)}

get_image_num(ts, tie) ==
    LET rows == NearestRows(ts)
    IN  image_counter[IF tie = "first" THEN MinOf(rows) ELSE MaxOf(rows)].image_counter

\* df.groupby(df.index).last(): of the datums of a signal that were given
\* image number num, the one buffered last (NaN when there is none)
GroupLast(sig, num, tie) ==
    LET data == fly_buffer[sig]
        same == {j \in 1..Len(data) : get_image_num(data[j].timestamp, tie) = num}
    IN  IF same = {} THEN NaN ELSE <<data[MaxOf(same)]>>

\* the columns of the combined frames: "timestamps", then one per buffered
\* signal in the order the signals were first buffered
FrameColumns ==
    <<"timestamps">> \o SelectSeq(DetectorSignals, LAMBDA sig : sig \in DOMAIN fly_buffer)

\* data[sig] = df[sig] and timestamps[sig] = df["timestamps"], aligned on
\* the image number
JoinedData(tie) ==
    [r \in 1..Len(image_counter) |->
        [col \in SeqToSet(FrameColumns) |->
            IF col = "timestamps" THEN <<image_counter[r].timestamps>>
            ELSE LET last == GroupLast(col, image_counter[r].image_counter, tie)
                 IN  IF last = NaN THEN NaN ELSE <<last[1].value>>]]

JoinedTimestamps(tie) ==
    [r \in 1..Len(image_counter) |->
        [col \in SeqToSet(FrameColumns) |->
            IF col = "timestamps" THEN <<image_counter[r].timestamps>>
            ELSE LET last == GroupLast(col, image_counter[r].image_counter, tie)
                 IN  IF last = NaN THEN NaN ELSE <<last[1].timestamp>>]]

\* DataFrame.ffill(axis=0): a missing cell takes the cell above it
FillDown(frame) ==
    [r \in DOMAIN frame |->
        [col \in DOMAIN frame[r] |->
            LET above == {q \in 1..r : frame[q][col] # NaN}
            IN  IF above = {} THEN NaN ELSE frame[MaxOf(above)][col]]]

\* DataFrame.ffill(axis=1): a missing cell takes the cell to its left
FillRight(frame) ==
    [r \in DOMAIN frame |->
        [col \in DOMAIN frame[r] |->
            LET pos == CHOOSE p \in 1..Len(FrameColumns) : FrameColumns[p] = col
                left == {q \in 1..pos : frame[r][FrameColumns[q]] # NaN}
            IN  IF left = {} THEN NaN ELSE frame[r][FrameColumns[MaxOf(left)]]]]

\* DataFrame.drop(frame.index[0]): the rows labelled like the first row go
KeptRows ==
    SelectSeq([r \in 1..Len(image_counter) |-> r],
              LAMBDA r : image_counter[r].image_counter # image_counter[1].image_counter)

DropFirst(frame) == [i \in 1..Len(KeptRows) |-> frame[KeptRows[i]]]

\* fly_data(): the data frame and the timestamp frame, indexed by image
\* number
fly_data(tie) ==
    [index |-> [i \in 1..Len(KeptRows) |-> image_counter[KeptRows[i]].image_counter],
     data |-> DropFirst(FillDown(JoinedData(tie))),
     timestamps |-> DropFirst(FillRight(JoinedTimestamps(tie)))]

FlyerPark ==
    /\ fly_now = 0
    /\ sig_state = [sig \in SeqToSet(DetectorSignals) |-> fly_event(0, 0)]
    /\ subs = {}
    /\ fly_buffer = EmptyDict
    /\ fly_frames = NaN
    /\ fly_pc = "parked"
    /\ sig_kind = [sig \in SeqToSet(DetectorSignals) |-> KindConfig]
    /\ fly_events = <<>>

\* the detector is connected: every signal has a value
FlyerInit ==
    /\ fly_now = 0
    /\ \E start \in CounterStarts :
          sig_state = [sig \in SeqToSet(DetectorSignals) |->
                          fly_event(0, IF sig = array_counter THEN start ELSE 0)]
    /\ subs = {}
    /\ fly_buffer = EmptyDict
    /\ fly_frames = NaN
    /\ fly_pc = "idle"
    /\ sig_kind \in KindLayouts
    /\ fly_events = <<>>

\* save_fly_datum(): the callback appends the event to the signal's list
save_fly_datum(buffer, sig, event) ==
    IF sig \in DOMAIN buffer
    THEN [buffer EXCEPT ![sig] = Append(@, event)]
    ELSE DictUpdate(buffer, sig :> <<event>>)

\* subscribe(run=True) on each fly signal: the callback runs at once with
\* the signal's current value
RECURSIVE SubscribeAll(_, _)
SubscribeAll(sigs, buffer) ==
    IF sigs = <<>> THEN buffer
    ELSE SubscribeAll(Tail(sigs),
                      save_fly_datum(buffer, Head(sigs), sig_state[Head(sigs)]))

FlyTick ==
    /\ fly_pc \in {"idle", "flying"}
    /\ fly_now < MaxTime
    /\ fly_now' = fly_now + 1
    /\ UNCHANGED <<sig_state, subs, fly_buffer, fly_frames, fly_pc, sig_kind, fly_events>>
    /\ UNCHANGED notFlyer

\* a signal changes: a new frame is counted, or a value toggles; a
\* subscribed signal passes the change to save_fly_datum
SignalUpdate(sig) ==
    /\ fly_pc \in {"idle", "flying"}
    /\ sig_state[sig].timestamp < fly_now
    /\ LET value == IF sig = array_counter THEN sig_state[sig].value + 1
                     ELSE 1 - sig_state[sig].value
           event == fly_event(fly_now, value)
       IN  /\ sig_state' = [sig_state EXCEPT ![sig] = event]
           /\ fly_buffer' = IF sig \in subs
                             THEN save_fly_datum(fly_buffer, sig, event)
                             ELSE fly_buffer
    /\ UNCHANGED <<fly_now, subs, fly_frames, fly_pc, sig_kind, fly_events>>
    /\ UNCHANGED notFlyer

Kickoff ==
    /\ fly_pc = "idle"
    /\ fly_buffer' = SubscribeAll(walk_fly_signals, EmptyDict)
    /\ subs' = SeqToSet(walk_fly_signals)
    /\ fly_pc' = "flying"
    /\ UNCHANGED <<fly_now, sig_state, fly_frames, sig_kind, fly_events>>
    /\ UNCHANGED notFlyer

Complete ==
    /\ fly_pc = "flying"
    /\ subs' = subs \ SeqToSet(walk_fly_signals)
    /\ fly_pc' = "completed"
    /\ UNCHANGED <<fly_now, sig_state, fly_buffer, fly_frames, sig_kind, fly_events>>
    /\ UNCHANGED notFlyer

FlyData ==
    /\ fly_pc = "completed"
    /\ \E tie \in TieBreaks : fly_frames' = <<fly_data(tie)>>
    /\ fly_pc' = "compiled"
    /\ UNCHANGED <<fly_now, sig_state, subs, fly_buffer, sig_kind, fly_events>>
    /\ UNCHANGED notFlyer

\* np.unique(): the distinct values, sorted
RECURSIVE np_unique(_)
np_unique(S) ==
    IF S = {} THEN <<>> ELSE <<MinOf(S)>> \o np_unique(S \ {MinOf(S)})

\* collect(): one event per row of the frames, without the "timestamps"
\* column; its time is the median of the row's distinct timestamps
collect_events(frames) ==
    [r \in 1..Len(frames.index) |->
        LET sigs == DOMAIN frames.data[r] \ {"timestamps"}
            unique == {frames.timestamps[r][sig][1] : sig \in sigs}
        IN  [data |-> [sig \in sigs |-> frames.data[r][sig]],
             timestamps |-> [sig \in sigs |-> frames.timestamps[r][sig]],
             time |-> Median(np_unique(unique))]]

FlyCollect ==
    /\ fly_pc = "compiled"
    /\ fly_events' = collect_events(fly_frames[1])
    /\ fly_pc' = "collected"
    /\ UNCHANGED <<fly_now, sig_state, subs, fly_buffer, fly_frames, sig_kind>>
    /\ UNCHANGED notFlyer

FlyerNext ==
    \/ FlyTick
    \/ \E sig \in SeqToSet(DetectorSignals) : SignalUpdate(sig)
    \/ Kickoff
    \/ Complete
    \/ FlyData
    \/ FlyCollect

\* the signals the claim wants captured
C15_Wanted ==
    {sig \in SeqToSet(DetectorSignals) :
        sig = array_counter \/ sig_kind[sig] \in {KindNormal, KindHinted}}

\* C15: of the detector's signals, exactly the normal and the hinted ones
\* together with the array counter, whatever its kind, are subscribed at
\* kickoff; a signal that is only config or omitted is in neither the
\* buffered fly data, nor the compiled frames, nor a collected event.
C15_FlySignals ==
    /\ fly_pc = "flying" => subs = C15_Wanted
    /\ fly_pc \in {"flying", "completed", "compiled", "collected"} =>
          DOMAIN fly_buffer = C15_Wanted
    /\ fly_pc \in {"compiled", "collected"} =>
          \A r \in 1..Len(fly_frames[1].index) :
              /\ DOMAIN fly_frames[1].data[r] \ {"timestamps"} = C15_Wanted
              /\ DOMAIN fly_frames[1].timestamps[r] \ {"timestamps"} = C15_Wanted
    /\ \A i \in 1..Len(fly_events) :
          /\ DOMAIN fly_events[i].data = C15_Wanted
          /\ DOMAIN fly_events[i].timestamps = C15_Wanted

\* events were collected from a detector whose array counter and gain are
\* omitted and whose gain changed while the second frame was counted or
\* later: the events hold the array counter and not the gain
C15_Witness ==
    /\ fly_pc = "collected"
    /\ Len(fly_events) >= 1
    /\ sig_kind[array_counter] = KindOmitted
    /\ sig_kind["gain"] = KindOmitted
    /\ sig_state["gain"].timestamp >= fly_buffer[array_counter][2].timestamp
    /\ array_counter \in DOMAIN fly_events[1].data
    /\ "gain" \notin DOMAIN fly_events[1].data

\* the image numbers whose counter timestamp is nearest to ts
C2_NearestImages(ts) ==
    LET counter == fly_buffer[array_counter]
    IN  {counter[i].value - 2 : i \in
            {i \in 1..Len(counter) : \A j \in 1..Len(counter) :
                Abs(counter[i].timestamp - ts) <= Abs(counter[j].timestamp - ts)}}

\* C2: fly_data() attributes every buffered datum of every captured signal
\* to the image number (array-counter value minus 2) whose counter timestamp
\* is nearest to the datum's timestamp: the cell of an image number that
\* some datum of the signal is nearest to holds a datum that is nearest to
\* it; and the returned frames are indexed by image number, one row per
\* image number except the first, which is dropped.
C2_FlyDataAligned ==
    fly_pc = "compiled" =>
        LET frames == fly_frames[1]
            counter == fly_buffer[array_counter]
            numbers == {counter[i].value - 2 : i \in 1..Len(counter)}
        IN  /\ SeqToSet(frames.index) = numbers \ {counter[1].value - 2}
            /\ Len(frames.index) = Cardinality(numbers) - 1
            /\ Len(frames.data) = Len(frames.index)
            /\ Len(frames.timestamps) = Len(frames.index)
            /\ \A r \in 1..Len(frames.index) : \A sig \in DOMAIN fly_buffer :
                  LET data == fly_buffer[sig] IN
                  (\E j \in 1..Len(data) :
                       C2_NearestImages(data[j].timestamp) = {frames.index[r]})
                  => \E j \in 1..Len(data) :
                       /\ frames.index[r] \in C2_NearestImages(data[j].timestamp)
                       /\ frames.data[r][sig] = <<data[j].value>>
                       /\ frames.timestamps[r][sig] = <<data[j].timestamp>>

\* the frames were compiled from three counted frames and a signal that
\* changed after the first of them, at a time when no frame was counted,
\* nearest to the last one
C2_Witness ==
    /\ fly_pc = "compiled"
    /\ Len(fly_buffer[array_counter]) = 3
    /\ Len(fly_frames[1].index) = 2
    /\ "roi_sum" \in DOMAIN fly_buffer
    /\ \E j \in 1..Len(fly_buffer["roi_sum"]) :
          LET ts == fly_buffer["roi_sum"][j].timestamp IN
          /\ \A i \in 1..3 : fly_buffer[array_counter][i].timestamp # ts
          /\ C2_NearestImages(ts) = {fly_frames[1].index[2]}
          /\ fly_buffer[array_counter][1].timestamp < ts

(***************************************************************************)
(* fly_line_scan, fly_scan, grid_fly_scan, Snaker  (haven/plans/fly.py)    *)
(*                                                                         *)
(* A plan is a generator of messages.  The model keeps the messages the    *)
(* plan stub in progress has yet to yield, and yields them one at a time.  *)
(* A message carries the number of the line it belongs to (-1 outside a    *)
(* line).  Starts, stops and point numbers are drawn so that the step size *)
(* is a whole number.                                                      *)
(***************************************************************************)
MaxLines == 2
flyer == "flyer"
stepper == "stepper"
collector == "flyer_collector"
DetectorLists == {<<>>, <<"det1">>, <<"det1", "det2">>}
Ranges == {<<0, 6>>, <<2, 6>>, <<6, 2>>}
Nums == {2, 3}
StepPositions == {10, 11}
\* snake_axes: False, True, or a list of motors
SnakeAxes ==
    {[is_list |-> FALSE, flag |-> b, axes |-> <<>>] : b \in BOOLEAN}
    \cup {[is_list |-> TRUE, flag |-> FALSE, axes |-> a] :
             a \in {<<>>, <<flyer>>, <<stepper>>, <<stepper, flyer>>}}

\* a message: the command, the device and the signal of it ("" for the
\* device itself), the value, the group a wait refers to, and the line
Msg(cmd, obj, attr, arg, group, line) ==
    [cmd |-> cmd, obj |-> obj, attr |-> attr, arg |-> arg, group |-> group,
     line |-> line]

\* bps.mv(obj, value): set, then wait for the set
mv(obj, attr, value, line) ==
    <<Msg("set", obj, attr, value, <<"set", obj, attr, line>>, line),
      Msg("wait", "none", "", 0, <<"set", obj, attr, line>>, line)>>

\* bps.kickoff(obj, wait=True) and bps.complete(obj, wait=True)
kickoff(obj, line) ==
    <<Msg("kickoff", obj, "", 0, <<"kickoff", obj, "", line>>, line),
      Msg("wait", "none", "", 0, <<"kickoff", obj, "", line>>, line)>>

complete(obj, line) ==
    <<Msg("complete", obj, "", 0, <<"complete", obj, "", line>>, line),
      Msg("wait", "none", "", 0, <<"complete", obj, "", line>>, line)>>

collect(obj, line) == <<Msg("collect", obj, "", 0, <<>>, line)>>

\* the for-loop that kicks off every flyer, and the one that completes them
RECURSIVE KickoffAll(_, _)
KickoffAll(objs, line) ==
    IF objs = <<>> THEN <<>>
    ELSE kickoff(Head(objs), line) \o KickoffAll(Tail(objs), line)

RECURSIVE CompleteAll(_, _)
CompleteAll(objs, line) ==
    IF objs = <<>> THEN <<>>
    ELSE complete(Head(objs), line) \o CompleteAll(Tail(objs), line)

\* a loop that kicks off and completes one flyer after the other
RECURSIVE OneByOne(_, _)
OneByOne(objs, line) ==
    IF objs = <<>> THEN <<>>
    ELSE kickoff(Head(objs), line) \o complete(Head(objs), line)
             \o OneByOne(Tail(objs), line)

fly_line_scan_one_by_one(detectors, fl, start, stop, num, line) ==
    LET step_size == Abs(start - stop) \div (num - 1)
    IN  mv(fl, "start_position", start, line)
        \o mv(fl, "end_position", stop, line)
        \o mv(fl, "step_size", step_size, line)
        \o OneByOne(<<fl>> \o detectors, line)
        \o collect(collector, line)
        \o collect(fl, line)

\* fly_line_scan(): the messages of one flown line
fly_line_scan(detectors, fl, start, stop, num, line) ==
    LET step_size == Abs(start - stop) \div (num - 1)
        flyers == <<fl>> \o detectors
    IN  mv(fl, "start_position", start, line)
        \o mv(fl, "end_position", stop, line)
        \o mv(fl, "step_size", step_size, line)
        \o KickoffAll(flyers, line)
        \o CompleteAll(flyers, line)
        \o collect(collector, line)
        \o collect(fl, line)

\* bps.move_per_step(step, pos_cache): a checkpoint, a set for the motor
\* if this step moves it, and a wait
move_per_step(pos, cache, line) ==
    <<Msg("checkpoint", "none", "", 0, <<>>, line)>>
    \o (IF <<pos>> = cache THEN <<>>
        ELSE <<Msg("set", stepper, "", pos, <<"set", stepper, "", line>>, line)>>)
    \o <<Msg("wait", "none", "", 0, <<"set", stepper, "", line>>, line)>>

\* grid_fly_scan(): whether the flyer is snaked
snake_flyer(snake_axes) ==
    IF snake_axes.is_list
    THEN \E i \in 1..Len(snake_axes.axes) : snake_axes.axes[i] = flyer
    ELSE snake_axes.flag

\* Snaker.__call__: the range of the line, swapped on a reversed line
SnakerRangeUnsnaked(rev, snake, start, stop) ==
    IF rev THEN <<stop, start>> ELSE <<start, stop>>

SnakerRange(rev, snake, start, stop) ==
    IF rev /\ snake THEN <<stop, start>> ELSE <<start, stop>>

\* the lists of step positions a grid can visit
StepLists == UNION {[1..n -> StepPositions] : n \in 1..MaxLines}

Plans ==
    {[kind |-> "fly_scan", detectors |-> d, start |-> r[1], stop |-> r[2],
      num |-> n, snake_axes |-> [is_list |-> FALSE, flag |-> FALSE, axes |-> <<>>],
      steps |-> <<>>] : d \in DetectorLists, r \in Ranges, n \in Nums}
    \cup
    {[kind |-> "grid_fly_scan", detectors |-> d, start |-> r[1], stop |-> r[2],
      num |-> n, snake_axes |-> sn, steps |-> st] :
        d \in DetectorLists, r \in Ranges, n \in Nums, sn \in SnakeAxes,
        st \in StepLists}

PlanPark ==
    /\ plan = [kind |-> "none"]
    /\ plan_pc = "parked"
    /\ pending = <<>>
    /\ msgs = <<>>
    /\ reverse = FALSE
    /\ calls = 0
    /\ pos_cache = NaN

PlanInit ==
    /\ plan \in Plans
    /\ plan_pc = "start"
    /\ pending = <<>>
    /\ msgs = <<>>
    /\ reverse = FALSE
    /\ calls = 0
    /\ pos_cache = NaN

\* the run engine takes the next message from the plan
Yield ==
    /\ pending # <<>>
    /\ msgs' = Append(msgs, Head(pending))
    /\ pending' = Tail(pending)
    /\ UNCHANGED <<plan, plan_pc, reverse, calls, pos_cache>>
    /\ UNCHANGED notPlan

\* stage_wrapper and run_wrapper open: the devices are staged, the run opens
PlanOpen ==
    /\ plan_pc = "start"
    /\ pending' = <<Msg("stage", "devices", "", 0, <<>>, -1),
                    Msg("open_run", "none", "", 0, <<>>, -1)>>
    /\ plan_pc' = IF plan.kind = "fly_scan" THEN "line" ELSE "step"
    /\ UNCHANGED <<plan, msgs, reverse, calls, pos_cache>>
    /\ UNCHANGED notPlan

\* fly_scan(): the one line
FlyScanLine ==
    /\ plan_pc = "line"
    /\ pending = <<>>
    /\ pending' = fly_line_scan(plan.detectors, flyer, plan.start, plan.stop,
                                plan.num, 0)
    /\ plan_pc' = "close"
    /\ UNCHANGED <<plan, msgs, reverse, calls, pos_cache>>
    /\ UNCHANGED notPlan

\* Snaker.__call__, first half: the step motors are moved
SnakerMove ==
    /\ plan_pc = "step"
    /\ pending = <<>>
    /\ calls < Len(plan.steps)
    /\ pending' = move_per_step(plan.steps[calls + 1], pos_cache, calls)
    /\ pos_cache' = <<plan.steps[calls + 1]>>
    /\ plan_pc' = "fly"
    /\ UNCHANGED <<plan, msgs, reverse, calls>>
    /\ UNCHANGED notPlan

\* Snaker.__call__, second half: the range is chosen, reverse is flipped
\* and the line is flown
SnakerFly ==
    /\ plan_pc = "fly"
    /\ pending = <<>>
    /\ LET range == SnakerRange(reverse, snake_flyer(plan.snake_axes),
                                plan.start, plan.stop)
       IN  pending' = fly_line_scan(plan.detectors, flyer, range[1], range[2],
                                    plan.num, calls)
    /\ reverse' = ~reverse
    /\ calls' = calls + 1
    /\ plan_pc' = "step"
    /\ UNCHANGED <<plan, msgs, pos_cache>>
    /\ UNCHANGED notPlan

\* the wrappers close: the run closes, the devices are unstaged
PlanClose ==
    /\ \/ plan_pc = "close"
       \/ plan_pc = "step" /\ calls = Len(plan.steps)
    /\ pending = <<>>
    /\ pending' = <<Msg("close_run", "none", "", 0, <<>>, -1),
                    Msg("unstage", "devices", "", 0, <<>>, -1)>>
    /\ plan_pc' = "closing"
    /\ UNCHANGED <<plan, msgs, reverse, calls, pos_cache>>
    /\ UNCHANGED notPlan

PlanDone ==
    /\ plan_pc = "closing"
    /\ pending = <<>>
    /\ plan_pc' = "done"
    /\ UNCHANGED <<plan, pending, msgs, reverse, calls, pos_cache>>
    /\ UNCHANGED notPlan

PlanNext ==
    \/ Yield
    \/ PlanOpen
    \/ FlyScanLine
    \/ SnakerMove
    \/ SnakerFly
    \/ PlanClose
    \/ PlanDone

\* message j is a set, kickoff or complete of obj that was waited on before
\* message k
C3_DoneBefore(cmd, obj, line, k) ==
    \E i \in 1..(k - 1) : \E w \in (i + 1)..(k - 1) :
        /\ msgs[i].cmd = cmd /\ msgs[i].obj = obj /\ msgs[i].line = line
        /\ msgs[w].cmd = "wait" /\ msgs[w].group = msgs[i].group

C3_Devices == <<flyer>> \o plan.detectors

C3_Ordered(k) ==
    LET m == msgs[k] IN
    /\ m.cmd = "kickoff" =>
          \A par \in {"start_position", "end_position", "step_size"} :
              \E i \in 1..(k - 1) :
                  /\ msgs[i].cmd = "set" /\ msgs[i].obj = flyer
                  /\ msgs[i].attr = par
                  /\ msgs[i].line = m.line
    /\ m.cmd = "complete" =>
          \A d \in 1..Len(C3_Devices) :
              C3_DoneBefore("kickoff", C3_Devices[d], m.line, k)
    /\ m.cmd = "collect" =>
          \A d \in 1..Len(C3_Devices) :
              C3_DoneBefore("complete", C3_Devices[d], m.line, k)
    /\ (m.cmd = "collect" /\ m.obj = flyer) =>
          \E i \in 1..(k - 1) :
              /\ msgs[i].cmd = "collect" /\ msgs[i].obj = collector
              /\ msgs[i].line = m.line

\* the lines a finished plan has flown
C3_Lines == IF plan.kind = "fly_scan" THEN {0} ELSE 0..(Len(plan.steps) - 1)

\* C3: in fly_scan, and in each line flown by grid_fly_scan, the flyer's
\* start position, end position and step size are set before any kickoff;
\* every device of [flyer, *detectors] is kicked off and its kickoff waited
\* on before any complete; every complete is waited on before any collect;
\* the merged FlyerCollector stream is collected before the flyer's own.
\* A finished plan has collected the flyer's stream in every line.
C3_FlyLineOrder ==
    /\ \A k \in 1..Len(msgs) : C3_Ordered(k)
    /\ plan_pc = "done" =>
          \A line \in C3_Lines : \E k \in 1..Len(msgs) :
              msgs[k].cmd = "collect" /\ msgs[k].obj = flyer /\ msgs[k].line = line

\* a grid fly scan with two detectors has flown two lines
C3_Witness ==
    /\ plan_pc = "done"
    /\ plan.kind = "grid_fly_scan"
    /\ Len(plan.detectors) = 2
    /\ Len(plan.steps) = 2
    /\ \E k \in 1..Len(msgs) :
          msgs[k].cmd = "collect" /\ msgs[k].obj = flyer /\ msgs[k].line = 1

\* the set message of one of the flyer's parameters in line n: its value
C4_Sets(par, n) ==
    {msgs[k].arg : k \in {k \in 1..Len(msgs) :
        /\ msgs[k].cmd = "set" /\ msgs[k].obj = flyer
        /\ msgs[k].attr = par /\ msgs[k].line = n}}

C4_Snaked ==
    IF plan.snake_axes.is_list
    THEN flyer \in SeqToSet(plan.snake_axes.axes)
    ELSE plan.snake_axes.flag

\* C4: every call of the Snaker first moves the step motors and then runs
\* the same fly line scan; when the flyer is snaked, call n (from 0) flies
\* from start to stop if n is even and from stop to start if n is odd, and
\* when it is not snaked every call flies from start to stop.
C4_SnakerLines ==
    plan.kind = "grid_fly_scan" =>
        /\ \A n \in 0..(calls - 1) :
              LET back == C4_Snaked /\ n % 2 = 1
                  flown == \E k \in 1..Len(msgs) :
                      msgs[k].cmd = "kickoff" /\ msgs[k].line = n
              IN
              /\ C4_Sets("start_position", n)
                    \subseteq {IF back THEN plan.stop ELSE plan.start}
              /\ C4_Sets("end_position", n)
                    \subseteq {IF back THEN plan.start ELSE plan.stop}
              /\ C4_Sets("step_size", n) \subseteq C4_Sets("step_size", 0)
              /\ flown => /\ C4_Sets("start_position", n) # {}
                          /\ C4_Sets("end_position", n) # {}
                          /\ C4_Sets("step_size", n) # {}
        /\ \A i, j \in 1..Len(msgs) :
              ( /\ msgs[i].line = msgs[j].line /\ msgs[i].line >= 0
                /\ msgs[i].group = <<"set", stepper, "", msgs[i].line>>
                /\ msgs[j].cmd \in {"set", "kickoff", "complete", "collect"}
                /\ msgs[j].obj # stepper )
              => i < j
        /\ \A k \in 1..Len(msgs) :
              (msgs[k].cmd \in {"kickoff", "complete", "collect"}) =>
                  \E w \in 1..(k - 1) :
                      /\ msgs[w].cmd = "wait"
                      /\ msgs[w].group = <<"set", stepper, "", msgs[k].line>>

\* the second call of a Snaker whose flyer is not snaked has set the
\* flyer's range, and so has the second call of one whose flyer is snaked
C4_Witness ==
    /\ plan.kind = "grid_fly_scan"
    /\ plan_pc = "done"
    /\ calls = 2
    /\ plan.snake_axes.is_list
    /\ C4_Snaked
    /\ C4_Sets("start_position", 1) = {plan.stop}
    /\ C4_Sets("start_position", 0) = {plan.start}

(***************************************************************************)
(* load_config()  (haven/_iconfig.py)                                      *)
(*                                                                         *)
(* The configuration is a mapping of sections to mappings of keys; two of  *)
(* the default sections, with two keys each, stand for all of them.  A     *)
(* file is a mapping of some sections to some of their keys.               *)
(***************************************************************************)
default_config ==
    [beamline |-> [name |-> "default", is_connected |-> "default"],
     monochromator |-> [ioc |-> "default", energy_ioc |-> "default"]]

CONFIG_FILES == <<"file1", "file2">>

\* what tomli.load() can read from a file: some sections, each with some of
\* its keys, every value the file's own
TablesOf(fp, section) ==
    {[k \in keys |-> fp] : keys \in SUBSET DOMAIN default_config[section]}

FileContents(fp) ==
    {DictUpdate(b, m) :
        b \in {EmptyDict} \cup {"beamline" :> t : t \in TablesOf(fp, "beamline")},
        m \in {EmptyDict} \cup {"monochromator" :> t : t \in TablesOf(fp, "monochromator")}}

ConfigPark ==
    /\ cfg_files = <<>>
    /\ cfg_idx = 0
    /\ config = EmptyDict
    /\ cfg_pc = "parked"

\* load_config() was called: config = default_config.copy()
ConfigInit ==
    /\ cfg_files \in {f \in [1..Len(CONFIG_FILES) ->
                                [exists : BOOLEAN,
                                 tables : UNION {FileContents(CONFIG_FILES[i]) :
                                                    i \in 1..Len(CONFIG_FILES)}]] :
                         \A i \in 1..Len(CONFIG_FILES) :
                             f[i].tables \in FileContents(CONFIG_FILES[i])}
    /\ cfg_idx = 0
    /\ config = default_config
    /\ cfg_pc = "loading"

\* one pass of the for-loop over a file that exists: config.update(...)
LoadFile ==
    /\ cfg_pc = "loading"
    /\ cfg_idx < Len(CONFIG_FILES)
    /\ cfg_files[cfg_idx + 1].exists
    /\ config' = DictUpdate(config, cfg_files[cfg_idx + 1].tables)
    /\ cfg_idx' = cfg_idx + 1
    /\ UNCHANGED <<cfg_files, cfg_pc>>
    /\ UNCHANGED notConfig

\* one pass of the for-loop over a file that does not exist
SkipFile ==
    /\ cfg_pc = "loading"
    /\ cfg_idx < Len(CONFIG_FILES)
    /\ ~cfg_files[cfg_idx + 1].exists
    /\ cfg_idx' = cfg_idx + 1
    /\ UNCHANGED <<cfg_files, config, cfg_pc>>
    /\ UNCHANGED notConfig

ReturnConfig ==
    /\ cfg_pc = "loading"
    /\ cfg_idx = Len(CONFIG_FILES)
    /\ cfg_pc' = "returned"
    /\ UNCHANGED <<cfg_files, cfg_idx, config>>
    /\ UNCHANGED notConfig

ConfigNext == LoadFile \/ SkipFile \/ ReturnConfig

\* the files that exist and set a key of a section
C5_Setters(section, key) ==
    {i \in 1..Len(CONFIG_FILES) :
        /\ cfg_files[i].exists
        /\ section \in DOMAIN cfg_files[i].tables
        /\ key \in DOMAIN cfg_files[i].tables[section]}

\* C5: load_config() returns the defaults overlaid by the files that exist,
\* in list order: a setting a file sets has the value of the last file that
\* sets it, and every default setting no file sets, a nested key of a
\* section that a file sets in part included, keeps its default value.
C5_DefaultsKept ==
    cfg_pc = "returned" =>
        \A section \in DOMAIN default_config :
            /\ section \in DOMAIN config
            /\ \A key \in DOMAIN default_config[section] :
                  /\ key \in DOMAIN config[section]
                  /\ config[section][key] =
                        IF C5_Setters(section, key) = {}
                        THEN default_config[section][key]
                        ELSE CONFIG_FILES[MaxOf(C5_Setters(section, key))]

(***************************************************************************)
(* make_device(), await_for_connection()  (haven/instrument/device.py)     *)
(*                                                                         *)
(* Several make_device() coroutines run together (aload_devices).  The     *)
(* clock is seen through one fact: whether the elapsed time has passed the *)
(* timeout, which a sleep can make true and nothing makes false again.     *)
(***************************************************************************)
NewDevices == {"camera", "mono"}
OldDevices == {"shutter"}
MinLoops == 2

DevicePark ==
    /\ dev_registry = {}
    /\ dev_pc = [d \in NewDevices |-> "parked"]
    /\ dev_result = [d \in NewDevices |-> "pending"]
    /\ sig_connected = [d \in NewDevices |-> FALSE]
    /\ pending_funcs = [d \in NewDevices |-> FALSE]
    /\ connected = [d \in NewDevices |-> FALSE]
    /\ loop_idx = [d \in NewDevices |-> 0]
    /\ expired = [d \in NewDevices |-> FALSE]

DeviceInit ==
    /\ dev_registry \in SUBSET OldDevices
    /\ dev_pc = [d \in NewDevices |-> "new"]
    /\ dev_result = [d \in NewDevices |-> "pending"]
    /\ sig_connected \in [NewDevices -> BOOLEAN]
    /\ pending_funcs \in [NewDevices -> BOOLEAN]
    /\ connected = [d \in NewDevices |-> FALSE]
    /\ loop_idx = [d \in NewDevices |-> 0]
    /\ expired = [d \in NewDevices |-> FALSE]

\* make_device()'s try / except TimeoutError / else: the registry after
\* the wait ended
RegisterAlways(registry, device, outcome) == registry \cup {device}

RegisterAfterWait(registry, device, outcome) ==
    IF outcome = "connected" THEN registry \cup {device} ELSE registry

\* what make_device() returns
ReturnAfterWait(outcome) == IF outcome = "connected" THEN "device" ELSE "None"

\* make_device() creates the device and enters await_for_connection()
MakeDevice(d) ==
    /\ dev_pc[d] = "new"
    /\ dev_pc' = [dev_pc EXCEPT ![d] = "polling"]
    /\ connected' = [connected EXCEPT ![d] = FALSE]
    /\ loop_idx' = [loop_idx EXCEPT ![d] = 0]
    /\ UNCHANGED <<dev_registry, dev_result, sig_connected, pending_funcs, expired>>
    /\ UNCHANGED notDevice

\* the head of the while-loop: the device is ready, and make_device()
\* registers and returns it, or the loop goes to sleep
CheckReady(d) ==
    /\ dev_pc[d] = "polling"
    /\ LET now_connected == connected[d] \/ sig_connected[d]
           ready == now_connected /\ ~pending_funcs[d]
       IN  /\ connected' = [connected EXCEPT ![d] = now_connected]
           /\ IF ready
              THEN /\ dev_registry' = RegisterAfterWait(dev_registry, d, "connected")
                   /\ dev_result' = [dev_result EXCEPT ![d] = ReturnAfterWait("connected")]
                   /\ dev_pc' = [dev_pc EXCEPT ![d] = "returned"]
              ELSE /\ dev_pc' = [dev_pc EXCEPT ![d] = "sleeping"]
                   /\ UNCHANGED <<dev_registry, dev_result>>
    /\ UNCHANGED <<sig_connected, pending_funcs, loop_idx, expired>>
    /\ UNCHANGED notDevice

\* the tail of the while-loop: the sleep is over, the loop is counted, and
\* past the timeout after more than MinLoops loops TimeoutError is raised,
\* which make_device() turns into None
SleepOver(d) ==
    /\ dev_pc[d] = "sleeping"
    /\ \E late \in BOOLEAN :
          LET is_expired == expired[d] \/ late
              idx == IF loop_idx[d] > MinLoops THEN loop_idx[d] ELSE loop_idx[d] + 1
          IN  /\ expired' = [expired EXCEPT ![d] = is_expired]
              /\ loop_idx' = [loop_idx EXCEPT ![d] = idx]
              /\ IF is_expired /\ idx > MinLoops
                 THEN /\ dev_registry' = RegisterAfterWait(dev_registry, d, "timeout")
                      /\ dev_result' = [dev_result EXCEPT ![d] = ReturnAfterWait("timeout")]
                      /\ dev_pc' = [dev_pc EXCEPT ![d] = "returned"]
                 ELSE /\ dev_pc' = [dev_pc EXCEPT ![d] = "polling"]
                      /\ UNCHANGED <<dev_registry, dev_result>>
    /\ UNCHANGED <<sig_connected, pending_funcs, connected>>
    /\ UNCHANGED notDevice

\* the control system: the last signal of a device connects
SignalsConnect(d) ==
    /\ dev_pc[d] \in {"polling", "sleeping"}
    /\ ~sig_connected[d]
    /\ sig_connected' = [sig_connected EXCEPT ![d] = TRUE]
    /\ UNCHANGED <<dev_registry, dev_pc, dev_result, pending_funcs, connected,
                   loop_idx, expired>>
    /\ UNCHANGED notDevice

\* the control system: a signal of a device loses its connection
SignalsDisconnect(d) ==
    /\ dev_pc[d] \in {"polling", "sleeping"}
    /\ sig_connected[d]
    /\ sig_connected' = [sig_connected EXCEPT ![d] = FALSE]
    /\ UNCHANGED <<dev_registry, dev_pc, dev_result, pending_funcs, connected,
                   loop_idx, expired>>
    /\ UNCHANGED notDevice

\* the last required-for-connection operation of a device finishes
OperationDone(d) ==
    /\ dev_pc[d] \in {"polling", "sleeping"}
    /\ pending_funcs[d]
    /\ pending_funcs' = [pending_funcs EXCEPT ![d] = FALSE]
    /\ UNCHANGED <<dev_registry, dev_pc, dev_result, sig_connected, connected,
                   loop_idx, expired>>
    /\ UNCHANGED notDevice

DeviceNext ==
    \E d \in NewDevices :
        \/ MakeDevice(d)
        \/ CheckReady(d)
        \/ SleepOver(d)
        \/ SignalsConnect(d)
        \/ SignalsDisconnect(d)
        \/ OperationDone(d)

\* C6: make_device() registers the created device in the instrument
\* registry and returns it if and only if the wait for its connection
\* succeeded; when the wait raises TimeoutError it returns None and leaves
\* the registry unchanged.
C6_RegisteredIffConnected ==
    /\ [](\A d \in NewDevices :
            /\ d \in dev_registry <=> dev_result[d] = "device"
            /\ dev_result[d] = "device" => connected[d] /\ ~pending_funcs[d]
            /\ dev_result[d] = "None" => expired[d] /\ loop_idx[d] > MinLoops)
    /\ [][\A d \in NewDevices :
            (dev_result[d] = "pending" /\ dev_result'[d] = "None")
                => dev_registry' = dev_registry]_vars

\* one device was registered and returned while the other timed out, with
\* a device registered before both still there
C6_Witness ==
    /\ dev_result["camera"] = "device"
    /\ dev_result["mono"] = "None"
    /\ dev_registry = {"shutter", "camera"}

\* C17: await_for_connection() returns normally only when all the signals
\* of the device are connected and no required-for-connection operation is
\* pending; otherwise it raises TimeoutError at the end of the first loop
\* at which the timeout has passed and the loop has run at least three
\* times, and never before that.
C17_ReturnsWhenConnected ==
    /\ [](\A d \in NewDevices :
            /\ dev_result[d] = "device" => sig_connected[d] /\ ~pending_funcs[d]
            /\ dev_result[d] = "None" => expired[d] /\ loop_idx[d] >= MinLoops + 1)
    /\ [][\A d \in NewDevices :
            (dev_pc[d] = "sleeping" /\ dev_pc'[d] = "polling")
                => ~(expired'[d] /\ loop_idx'[d] >= MinLoops + 1)]_vars

(***************************************************************************)
(* load_instrument()  (haven/instrument/load_instrument.py)                *)
(*                                                                         *)
(* There are two registries, the module-level one that is the default of   *)
(* the registry argument and one made by the caller.  Each loader makes    *)
(* one device, named after the loader, when the configuration has one for  *)
(* it.                                                                     *)
(***************************************************************************)
default_registry == "default"
RegistryIds == {default_registry, "other"}

Loaders == <<"energy_positioner", "ion_chambers", "motors", "monochromator",
             "cameras", "shutters", "stages">>

StaleDevices == {"stale"}

InstrumentPark ==
    /\ registries = [id \in RegistryIds |-> {}]
    /\ target = default_registry
    /\ inst_config = {}
    /\ inst_idx = 0
    /\ inst_pc = "parked"
    /\ created = {}

\* load_instrument(registry=target, config=...) was called; the
\* configuration always has a monochromator
InstrumentInit ==
    /\ registries \in [RegistryIds -> SUBSET StaleDevices]
    /\ target \in RegistryIds
    /\ inst_config \in {c \in SUBSET {Loaders[i] : i \in 1..Len(Loaders)} :
                            "monochromator" \in c}
    /\ inst_idx = 0
    /\ inst_pc = "called"
    /\ created = {}

\* registry.clear()
ClearRegistry ==
    /\ inst_pc = "called"
    /\ registries' = [registries EXCEPT ![target] = {}]
    /\ inst_pc' = "loading"
    /\ UNCHANGED <<target, inst_config, inst_idx, created>>
    /\ UNCHANGED notInstrument

\* load_monochromator(config=config): Monochromator is decorated with the
\* module-level registry, which takes its instances when they are made
LoadMonochromator ==
    /\ inst_pc = "loading"
    /\ inst_idx < Len(Loaders)
    /\ Loaders[inst_idx + 1] = "monochromator"
    /\ registries' = [registries EXCEPT
                          ![default_registry] = @ \cup {"monochromator"}]
    /\ created' = created \cup {"monochromator"}
    /\ inst_idx' = inst_idx + 1
    /\ UNCHANGED <<target, inst_config, inst_pc>>
    /\ UNCHANGED notInstrument

\* one of the other loaders: its device, if configured, goes to the
\* registry load_instrument() was given
LoadOther ==
    /\ inst_pc = "loading"
    /\ inst_idx < Len(Loaders)
    /\ Loaders[inst_idx + 1] # "monochromator"
    /\ LET loader == Loaders[inst_idx + 1]
           loaded == IF loader \in inst_config THEN {loader} ELSE {}
       IN  /\ registries' = [registries EXCEPT ![target] = @ \cup loaded]
           /\ created' = created \cup loaded
    /\ inst_idx' = inst_idx + 1
    /\ UNCHANGED <<target, inst_config, inst_pc>>
    /\ UNCHANGED notInstrument

ReturnInstrument ==
    /\ inst_pc = "loading"
    /\ inst_idx = Len(Loaders)
    /\ inst_pc' = "returned"
    /\ UNCHANGED <<registries, target, inst_config, inst_idx, created>>
    /\ UNCHANGED notInstrument

InstrumentNext ==
    ClearRegistry \/ LoadMonochromator \/ LoadOther \/ ReturnInstrument

\* C7: after load_instrument(registry=R, config=C) returns, R holds
\* exactly the devices this call created: what R held before is gone and
\* every created device is in R, also when R is not the default registry.
C7_RegistryHoldsCreated ==
    inst_pc = "returned" => registries[target] = created

(***************************************************************************)
(* RunBrowserDisplay.db_task()  (firefly/run_browser.py)                   *)
(*                                                                         *)
(* A task is pending, cancelling (cancel() was called on it and the        *)
(* CancelledError is not delivered yet), finished or cancelled.  The       *)
(* load_runs() coroutine, itself run as a database task by __init__(),     *)
(* starts a second database task and awaits it.                            *)
(***************************************************************************)
MaxTasks == 4

default_task == "default task"
TaskNames == {default_task, "load all runs", "metadata"}

Done == {"finished", "cancelled"}

\* asyncio.Task.cancel(): nothing for a task that is done; otherwise the
\* cancellation is requested, and passed on to the task this one awaits
RECURSIVE CancelTask(_, _)
CancelTask(tasks, id) ==
    IF tasks[id].state \in Done
    THEN tasks
    ELSE LET marked == [tasks EXCEPT ![id].state = "cancelling"]
         IN  IF tasks[id].waits_for # 0
             THEN CancelTask(marked, tasks[id].waits_for)
             ELSE marked

\* asyncio.ensure_future(coro)
NewTask(coro, name) ==
    [name |-> name, coro |-> coro, state |-> "pending", started |-> FALSE,
     waits_for |-> 0]

\* db_task(coro, name): the tasks and the register after the call
db_task(tasks, running, coro, name) ==
    LET has_previous_task == running[name] # 0
        task_is_running ==
            has_previous_task /\ tasks[running[name]].state \notin Done
        after_cancel ==
            IF task_is_running THEN CancelTask(tasks, running[name]) ELSE tasks
    IN  [tasks |-> Append(after_cancel, NewTask(coro, name)),
         running |-> [running EXCEPT ![name] = Len(tasks) + 1]]

BrowserPark ==
    /\ db_tasks = <<>>
    /\ running_db_tasks = [n \in TaskNames |-> 0]

\* __init__(): self.db_task(self.load_runs())
BrowserInit ==
    LET made == db_task(<<>>, [n \in TaskNames |-> 0], "load_runs", default_task)
    IN  /\ db_tasks = made.tasks
        /\ running_db_tasks = made.running

\* sleep_slot(): await self.db_task(self.print_sleep())
SleepSlot ==
    /\ Len(db_tasks) < MaxTasks
    /\ LET made == db_task(db_tasks, running_db_tasks, "print_sleep", default_task)
       IN  /\ db_tasks' = made.tasks
           /\ running_db_tasks' = made.running
    /\ UNCHANGED notBrowser

\* reload_runs(): load_runs() run by the slot itself
ReloadRuns ==
    /\ Len(db_tasks) < MaxTasks
    /\ LET made == db_task(db_tasks, running_db_tasks, "load_all_runs",
                            "load all runs")
       IN  /\ db_tasks' = made.tasks
           /\ running_db_tasks' = made.running
    /\ UNCHANGED notBrowser

\* update_metadata(): await self.db_task(self.db.metadata(), "metadata")
UpdateMetadata ==
    /\ Len(db_tasks) < MaxTasks
    /\ LET made == db_task(db_tasks, running_db_tasks, "metadata", "metadata")
       IN  /\ db_tasks' = made.tasks
           /\ running_db_tasks' = made.running
    /\ UNCHANGED notBrowser

\* a load_runs() task runs up to its await: it starts the "load all runs"
\* task and waits for it
LoadRunsStep(id) ==
    /\ Len(db_tasks) < MaxTasks
    /\ db_tasks[id].coro = "load_runs"
    /\ db_tasks[id].state = "pending"
    /\ ~db_tasks[id].started
    /\ LET made == db_task(db_tasks, running_db_tasks, "load_all_runs",
                            "load all runs")
       IN  /\ db_tasks' = [made.tasks EXCEPT ![id].started = TRUE,
                                               ![id].waits_for = Len(db_tasks) + 1]
           /\ running_db_tasks' = made.running
    /\ UNCHANGED notBrowser

\* what a task awaits, if anything, is over
CanResume(id) ==
    IF db_tasks[id].waits_for = 0
    THEN TRUE
    ELSE db_tasks[db_tasks[id].waits_for].state \in Done

\* a task's coroutine returns
TaskFinish(id) ==
    /\ db_tasks[id].state = "pending"
    /\ db_tasks[id].coro = "load_runs" => db_tasks[id].started
    /\ CanResume(id)
    /\ db_tasks' = [db_tasks EXCEPT ![id].state = "finished", ![id].waits_for = 0]
    /\ UNCHANGED running_db_tasks
    /\ UNCHANGED notBrowser

\* the CancelledError reaches a task whose cancellation was requested
CancelDelivered(id) ==
    /\ db_tasks[id].state = "cancelling"
    /\ CanResume(id)
    /\ db_tasks' = [db_tasks EXCEPT ![id].state = "cancelled", ![id].waits_for = 0]
    /\ UNCHANGED running_db_tasks
    /\ UNCHANGED notBrowser

BrowserNext ==
    \/ SleepSlot
    \/ ReloadRuns
    \/ UpdateMetadata
    \/ \E id \in 1..Len(db_tasks) : LoadRunsStep(id)
    \/ \E id \in 1..Len(db_tasks) : TaskFinish(id)
    \/ \E id \in 1..Len(db_tasks) : CancelDelivered(id)

\* the tasks of a name that are neither cancelled nor finished
C8_Live(name) ==
    {id \in 1..Len(db_tasks) :
        db_tasks[id].name = name /\ db_tasks[id].state = "pending"}

\* a step that is a call of db_task(): it makes one task
C8_IsCall == Len(db_tasks') = Len(db_tasks) + 1

\* C8: db_task(coro, name) cancels a still-running task registered under
\* the same name and registers the new task in its place, so at any time
\* each name has at most one task that is neither cancelled nor finished;
\* a call never cancels a task registered under another name.
C8_OneTaskPerName ==
    /\ [](\A name \in TaskNames : Cardinality(C8_Live(name)) <= 1)
    /\ [][C8_IsCall =>
            LET new == Len(db_tasks')
                name == db_tasks'[new].name
            IN  /\ running_db_tasks'[name] = new
                /\ running_db_tasks[name] # 0 =>
                      db_tasks'[running_db_tasks[name]].state # "pending"
                /\ \A id \in 1..Len(db_tasks) :
                      db_tasks[id].name # name =>
                          db_tasks'[id].state = db_tasks[id].state]_vars

(***************************************************************************)
(* load_motors()  (haven/instrument/motor.py)                              *)
(*                                                                         *)
(* A motor record is the pair <<prefix, n>> for the text {prefix}m{n}.  A  *)
(* text is a sequence of characters.  A device has an identity, a name,    *)
(* the record it was made for, labels, and has or has not an attribute     *)
(* "prefix": a threaded ophyd motor has one, a HavenMotor, which is what   *)
(* load_motors() makes, has not.                                           *)
(***************************************************************************)
MaxMotors == 2

vme_prefix == "255idVME:"

\* the items config["motor"] can have
MotorConfigs ==
    LET vme(n) == [section |-> "VME_crate", prefix |-> vme_prefix, num_motors |-> n]
        aux == [section |-> "aux_crate", prefix |-> "255idAUX:", num_motors |-> 1]
    IN  {<<>>} \cup {<<vme(n)>> : n \in 0..MaxMotors}
               \cup {<<vme(n), aux>> : n \in 0..MaxMotors}

\* what a description can resolve to: None, "", "S V", "2m"
NoName == [available |-> FALSE, text |-> <<>>]
Descriptions ==
    {NoName,
     [available |-> TRUE, text |-> <<>>],
     [available |-> TRUE, text |-> <<"S", " ", "V">>],
     [available |-> TRUE, text |-> <<"2", "m">>]}

motor_labels == {"motors", "extra_motors", "baseline"}

\* the devices a registry can hold before the call: a motor of a threaded
\* ophyd device and a HavenMotor of an earlier load
RegisteredBefore ==
    {[id |-> <<"registered", 1>>, name |-> <<"k", "b">>, pv |-> <<vme_prefix, 1>>,
      labels |-> {"motors"}, has_prefix |-> TRUE],
     [id |-> <<"registered", 2>>, name |-> <<"S", "_", "V">>, pv |-> <<vme_prefix, 2>>,
      labels |-> motor_labels, has_prefix |-> FALSE]}

\* the definitions of one IOC: {prefix}m1 .. {prefix}m{num_motors}
DefnsOf(cfg) ==
    [idx \in 1..cfg.num_motors |->
        [prefix |-> <<cfg.prefix, idx>>, ioc_name |-> cfg.section, name |-> NoName]]

RECURSIVE BuildDefns(_)
BuildDefns(items) ==
    IF items = <<>> THEN <<>>
    ELSE DefnsOf(Head(items)) \o BuildDefns(Tail(items))

\* the prefixes of the registry's motors that have one
existing_pvs(registry) ==
    {m.pv : m \in {d \in registry : "motors" \in d.labels /\ d.has_prefix}}

FilterDefns(all, registry) ==
    SelectSeq(all, LAMBDA defn : defn.prefix \notin existing_pvs(registry))

\* apstools' safe_ophyd_name(): every character that is no letter, digit
\* or underscore becomes an underscore, and a leading digit gets one before
IsWordChar(c) == c \in {"S", "V", "m", "2", "_"}
IsDigit(c) == c \in {"2"}

safe_ophyd_name(text) ==
    LET safer == [i \in 1..Len(text) |-> IF IsWordChar(text[i]) THEN text[i] ELSE "_"]
    IN  IF IsDigit(safer[1]) THEN <<"_">> \o safer ELSE safer

\* the test of the creation loop: neither "" nor None
IsNamed(name) == name.available /\ name.text # <<>>

\* HavenMotor(prefix=..., name=...)
HavenMotor(prefix, name, n) ==
    [id |-> <<"loaded", n>>, name |-> name, pv |-> prefix, labels |-> {},
     has_prefix |-> FALSE]

MotorPark ==
    /\ motor_registry = {}
    /\ motor_config = <<>>
    /\ descriptions = EmptyDict
    /\ defns = <<>>
    /\ motor_pc = "parked"
    /\ motor_idx = 0
    /\ devices = <<>>
    /\ missing_channels = <<>>
    /\ unnamed_channels = <<>>
    /\ motor_warnings = <<>>

MotorInit ==
    /\ motor_registry \in SUBSET RegisteredBefore
    /\ motor_config \in MotorConfigs
    /\ descriptions \in [SeqToSet([i \in 1..Len(BuildDefns(motor_config)) |->
                                       BuildDefns(motor_config)[i].prefix])
                            -> Descriptions]
    /\ defns = <<>>
    /\ motor_pc = "called"
    /\ motor_idx = 0
    /\ devices = <<>>
    /\ missing_channels = <<>>
    /\ unnamed_channels = <<>>
    /\ motor_warnings = <<>>

\* the definitions are built and those of existing motors dropped
PrepareDefns ==
    /\ motor_pc = "called"
    /\ defns' = FilterDefns(BuildDefns(motor_config), motor_registry)
    /\ motor_pc' = "resolving"
    /\ UNCHANGED <<motor_registry, motor_config, descriptions, motor_idx, devices,
                   missing_channels, unnamed_channels, motor_warnings>>
    /\ UNCHANGED notMotor

\* await resolve_device_names(defns): every definition gets its name
ResolveNames ==
    /\ motor_pc = "resolving"
    /\ defns' = [i \in 1..Len(defns) |->
                    [defns[i] EXCEPT !.name = descriptions[defns[i].prefix]]]
    /\ motor_pc' = "creating"
    /\ UNCHANGED <<motor_registry, motor_config, descriptions, motor_idx, devices,
                   missing_channels, unnamed_channels, motor_warnings>>
    /\ UNCHANGED notMotor

\* one pass of the creation loop
CreateOrSkip ==
    /\ motor_pc = "creating"
    /\ motor_idx < Len(defns)
    /\ LET defn == defns[motor_idx + 1]
       IN  IF IsNamed(defn.name)
           THEN /\ devices' = Append(devices,
                                     HavenMotor(defn.prefix,
                                                safe_ophyd_name(defn.name.text),
                                                motor_idx + 1))
                /\ UNCHANGED <<missing_channels, unnamed_channels>>
           ELSE IF defn.name.available
           THEN /\ unnamed_channels' = Append(unnamed_channels, defn.prefix)
                /\ UNCHANGED <<devices, missing_channels>>
           ELSE /\ missing_channels' = Append(missing_channels, defn.prefix)
                /\ UNCHANGED <<devices, unnamed_channels>>
    /\ motor_idx' = motor_idx + 1
    /\ UNCHANGED <<motor_registry, motor_config, descriptions, defns, motor_pc,
                   motor_warnings>>
    /\ UNCHANGED notMotor

\* the warnings after the loop
NoWarnings(missing, unnamed) == <<>>

WarningsFor(missing, unnamed) ==
    (IF Len(missing) > 0
     THEN <<[msg |-> "Skipping unavailable motors: ", prefixes |-> missing]>>
     ELSE <<>>)
    \o (IF Len(unnamed) > 0
        THEN <<[msg |-> "Skipping unnamed motors: ", prefixes |-> unnamed]>>
        ELSE <<>>)

WarnSkipped ==
    /\ motor_pc = "creating"
    /\ motor_idx = Len(defns)
    /\ motor_warnings' = WarningsFor(missing_channels, unnamed_channels)
    /\ motor_pc' = "connecting"
    /\ UNCHANGED <<motor_registry, motor_config, descriptions, defns, motor_idx,
                   devices, missing_channels, unnamed_channels>>
    /\ UNCHANGED notMotor

\* await connect_devices(devices, labels=..., registry=registry): every
\* device gets the labels and is registered
ConnectDevices ==
    /\ motor_pc = "connecting"
    /\ devices' = [i \in 1..Len(devices) |->
                      [devices[i] EXCEPT !.labels = motor_labels]]
    /\ motor_registry' = motor_registry \cup SeqToSet(devices')
    /\ motor_pc' = "returned"
    /\ UNCHANGED <<motor_config, descriptions, defns, motor_idx, missing_channels,
                   unnamed_channels, motor_warnings>>
    /\ UNCHANGED notMotor

MotorNext ==
    PrepareDefns \/ ResolveNames \/ CreateOrSkip \/ WarnSkipped \/ ConnectDevices

\* the candidate motors of the configuration
C9_Candidates ==
    UNION {{<<motor_config[k].prefix, n>> : n \in 1..motor_config[k].num_motors} :
              k \in 1..Len(motor_config)}

\* the motors in the registry
C9_Motors == {m \in motor_registry : "motors" \in m.labels}

\* C9: the candidates of load_motors() are {prefix}m1 .. {prefix}m{num_motors}
\* of every configured IOC, and no device is created for a candidate whose
\* prefix is that of a motor already in the registry.
C9_NoDuplicates ==
    /\ motor_pc \in {"resolving", "creating", "connecting"} =>
          /\ \A i \in 1..Len(defns) : defns[i].prefix \in C9_Candidates
          /\ \A c \in C9_Candidates :
                (\A m \in C9_Motors : m.pv # c)
                    => \E i \in 1..Len(defns) : defns[i].prefix = c
    /\ motor_pc \in {"creating", "connecting"} =>
          \A i \in 1..Len(devices) :
              \A m \in C9_Motors : m.pv # devices[i].pv

\* the definitions whose description is a non-empty string
C10_Named == {i \in 1..Len(defns) : defns[i].name.available /\ Len(defns[i].name.text) > 0}

\* a name ophyd accepts that is the text but for the characters replaced
\* and an underscore put before a digit
C10_Sanitised(name, text) ==
    LET shift == Len(name) - Len(text)
    IN  /\ shift \in {0, 1}
        /\ shift = 1 <=> text[1] = "2"
        /\ shift = 1 => name[1] = "_"
        /\ \A i \in 1..Len(text) :
              name[i + shift] = IF text[i] \in {" "} THEN "_" ELSE text[i]

\* a warning with this message lists the prefix
C10_Warned(msg, prefix) ==
    \E w \in 1..Len(motor_warnings) :
        /\ motor_warnings[w].msg = msg
        /\ prefix \in SeqToSet(motor_warnings[w].prefixes)

MaxConnects == 2

AutoNames == {"True", "False", "None"}
GivenNames == {<<>>, <<"m", "_", "2">>}
ParentName == <<"S", "_", "m">>

\* the test in connect(): bool(auto_name) or (auto_name is None and name == "")
AlwaysAutoName(auto_name, name) == TRUE

ShouldAutoName(auto_name, name) ==
    auto_name = "True" \/ (auto_name = "None" /\ name = <<>>)

ConnectPark ==
    /\ mc_name = <<>>
    /\ mc_auto_name = "None"
    /\ mc_description = NoName
    /\ mc_pc = "parked"
    /\ mc_old_name = <<>>
    /\ mc_connects = 0
    /\ mc_warned = FALSE

\* Motor(prefix, name=..., auto_name=...) was made
ConnectInit ==
    /\ mc_name \in GivenNames
    /\ mc_auto_name \in AutoNames
    /\ mc_description \in Descriptions
    /\ mc_pc = "made"
    /\ mc_old_name = mc_name
    /\ mc_connects = 0
    /\ mc_warned = FALSE

\* a parent device names its child motor before it is connected
ParentSetsName ==
    /\ mc_pc = "made"
    /\ mc_name = <<>>
    /\ mc_name' = ParentName
    /\ mc_old_name' = ParentName
    /\ UNCHANGED <<mc_auto_name, mc_description, mc_pc, mc_connects, mc_warned>>
    /\ UNCHANGED notConnect

\* the .DESC field of the record is edited while nothing is connecting
DescriptionChanges ==
    /\ mc_pc = "made"
    /\ \E d \in Descriptions :
          /\ d # mc_description
          /\ mc_description' = d
    /\ UNCHANGED <<mc_name, mc_auto_name, mc_pc, mc_old_name, mc_connects, mc_warned>>
    /\ UNCHANGED notConnect

\* connect() is called and super().connect() returns or raises
SuperConnect ==
    /\ mc_pc = "made"
    /\ mc_connects < MaxConnects
    /\ mc_connects' = mc_connects + 1
    /\ mc_old_name' = mc_name
    /\ mc_warned' = FALSE
    /\ \E connected_ok \in BOOLEAN :
          mc_pc' = IF connected_ok THEN "connected" ELSE "raised"
    /\ UNCHANGED <<mc_name, mc_auto_name, mc_description>>
    /\ UNCHANGED notConnect

\* the rest of connect(): the description is read, if the name is to be
\* updated, and the name is set
UpdateName ==
    /\ mc_pc = "connected"
    /\ IF ~ShouldAutoName(mc_auto_name, mc_name)
       THEN UNCHANGED <<mc_name, mc_warned>>
       ELSE IF ~mc_description.available
       THEN /\ mc_warned' = TRUE
            /\ UNCHANGED mc_name
       ELSE IF mc_description.text # <<>>
       THEN /\ mc_name' = safe_ophyd_name(mc_description.text)
            /\ UNCHANGED mc_warned
       ELSE UNCHANGED <<mc_name, mc_warned>>
    /\ mc_pc' = "done"
    /\ UNCHANGED <<mc_auto_name, mc_description, mc_old_name, mc_connects>>
    /\ UNCHANGED notConnect

\* connect() is over, having returned or raised
ConnectOver ==
    /\ mc_pc \in {"done", "raised"}
    /\ mc_pc' = "made"
    /\ UNCHANGED <<mc_name, mc_auto_name, mc_description, mc_old_name, mc_connects,
                   mc_warned>>
    /\ UNCHANGED notConnect

ConnectNext ==
    \/ ParentSetsName
    \/ DescriptionChanges
    \/ SuperConnect
    \/ UpdateName
    \/ ConnectOver

\* the motor is to be named after its description: auto_name is true, or
\* it is None and the motor had no name when connect() ran
C11_Wanted ==
    \/ mc_auto_name = "True"
    \/ mc_auto_name = "None" /\ Len(mc_old_name) = 0

\* the description was read and is not empty
C11_Described == mc_description.available /\ Len(mc_description.text) > 0

GainMargin == 1

values == <<1, 2, 5, 10, 20, 50, 100, 200, 500>>
units == <<"pA/V", "nA/V", "uA/V", "mA/V">>
offset_difference == -3
lmin == 0
lmax == 27

\* the gain levels a caller writes, some of them out of range
GainInputs == (lmin - GainMargin)..(lmax + GainMargin)

\* unit.split("/")[0]
SplitUnit(unit) ==
    CASE unit = "pA/V" -> "pA"
      [] unit = "nA/V" -> "nA"
      [] unit = "uA/V" -> "uA"
      [] unit = "mA/V" -> "mA"

level_to_value(level) == level % Len(values)

level_to_unit(level) == level \div Len(values)

\* _get_gain_level(): the sensitivity level, and the gain level, which is
\* its inverse
sensitivity_level(value, unit) == value + unit * Len(values)

get_gain_level(value, unit) == lmax - (value + unit * Len(values))

\* the offset level that goes with a sensitivity level
new_offset_two_lower(new_level) ==
    IF new_level - 2 > 0 THEN new_level - 2 ELSE 0

new_offset(new_level) ==
    IF new_level + offset_difference > 0 THEN new_level + offset_difference ELSE 0

\* _put_gain_level(): GainOverflow, or the values to write
put_gain_level(value) ==
    LET new_level == lmax - value
    IN  IF new_level < lmin \/ new_level > lmax
        THEN [raised |-> TRUE]
        ELSE [raised |-> FALSE,
              sensitivity_unit |-> level_to_unit(new_level),
              sensitivity_value |-> level_to_value(new_level),
              offset_value |-> values[level_to_value(new_offset(new_level)) + 1],
              offset_unit |-> SplitUnit(units[level_to_unit(new_offset(new_level)) + 1])]

\* update_sensitivity_text()
sensitivity_text(value, unit) == <<values[value + 1], units[unit + 1]>>

PreampPark ==
    /\ pa_sensitivity_value = 0
    /\ pa_sensitivity_unit = 0
    /\ pa_offset_value = 1
    /\ pa_offset_unit = "pA"
    /\ pa_put = <<>>
    /\ pa_raised = FALSE
    /\ pa_read = <<>>
    /\ pa_pc = "parked"

\* the pre-amplifier as the hardware has it when the device is made
PreampInit ==
    /\ pa_sensitivity_value \in 0..(Len(values) - 1)
    /\ pa_sensitivity_unit \in 0..(Len(units) - 1)
    /\ pa_offset_value = 1
    /\ pa_offset_unit = "pA"
    /\ pa_put = <<>>
    /\ pa_raised = FALSE
    /\ pa_read = <<>>
    /\ pa_pc = "idle"

\* gain_level.put(value): the computed values are written, or GainOverflow
\* is raised and nothing is
PutGainLevel ==
    /\ pa_pc = "idle"
    /\ \E value \in GainInputs :
          LET result == put_gain_level(value)
          IN  /\ pa_put' = <<value>>
              /\ pa_raised' = result.raised
              /\ IF result.raised
                 THEN UNCHANGED <<pa_sensitivity_value, pa_sensitivity_unit,
                                  pa_offset_value, pa_offset_unit>>
                 ELSE /\ pa_sensitivity_unit' = result.sensitivity_unit
                      /\ pa_sensitivity_value' = result.sensitivity_value
                      /\ pa_offset_value' = result.offset_value
                      /\ pa_offset_unit' = result.offset_unit
    /\ pa_read' = <<>>
    /\ UNCHANGED pa_pc
    /\ UNCHANGED notPreamp

\* gain_level.get()
GetGainLevel ==
    /\ pa_pc = "idle"
    /\ pa_read' = <<get_gain_level(pa_sensitivity_value, pa_sensitivity_unit)>>
    /\ UNCHANGED <<pa_sensitivity_value, pa_sensitivity_unit, pa_offset_value,
                   pa_offset_unit, pa_put, pa_raised, pa_pc>>
    /\ UNCHANGED notPreamp

\* the sensitivity is changed at the instrument
SensitivityChanges ==
    /\ pa_pc = "idle"
    /\ \E value \in 0..(Len(values) - 1), unit \in 0..(Len(units) - 1) :
          /\ <<value, unit>> # <<pa_sensitivity_value, pa_sensitivity_unit>>
          /\ pa_sensitivity_value' = value
          /\ pa_sensitivity_unit' = unit
    /\ pa_put' = <<>>
    /\ pa_raised' = FALSE
    /\ pa_read' = <<>>
    /\ UNCHANGED <<pa_offset_value, pa_offset_unit, pa_pc>>
    /\ UNCHANGED notPreamp

PreampNext == PutGainLevel \/ GetGainLevel \/ SensitivityChanges

\* the last write was of a gain level in range
C13_ValidPut == pa_put # <<>> /\ pa_put[1] \in 0..27

\* C13: a gain level g in 0..27 that was written is the gain level read
\* back from the sensitivity it set, g = 0 sets "1 mA/V", and a level
\* outside 0..27 raises GainOverflow and writes nothing.
C13_GainRoundTrip ==
    /\ [](C13_ValidPut =>
            /\ ~pa_raised
            /\ 27 - (pa_sensitivity_value + 9 * pa_sensitivity_unit) = pa_put[1]
            /\ pa_read # <<>> => pa_read[1] = pa_put[1]
            /\ pa_put[1] = 0 =>
                  sensitivity_text(pa_sensitivity_value, pa_sensitivity_unit)
                      = <<1, "mA/V">>)
    /\ []((pa_put # <<>> /\ pa_put[1] \notin 0..27) => pa_raised)
    /\ [][pa_raised' =>
            /\ pa_sensitivity_value' = pa_sensitivity_value
            /\ pa_sensitivity_unit' = pa_sensitivity_unit
            /\ pa_offset_value' = pa_offset_value
            /\ pa_offset_unit' = pa_offset_unit]_vars

\* gain level 13 was written and read back
C13_Witness ==
    /\ pa_put = <<13>>
    /\ pa_read = <<13>>
    /\ pa_sensitivity_value = 5
    /\ pa_sensitivity_unit = 1

\* the position of a unit in pA, nA, uA, mA
C14_UnitIndex(unit) ==
    CASE unit \in {"pA", "pA/V"} -> 0
      [] unit \in {"nA", "nA/V"} -> 1
      [] unit \in {"uA", "uA/V"} -> 2
      [] unit \in {"mA", "mA/V"} -> 3

\* ten times the offset is the sensitivity
C14_IsTenth ==
    LET sens == values[pa_sensitivity_value + 1]
        shift == pa_sensitivity_unit - C14_UnitIndex(pa_offset_unit)
    IN  \/ shift = 0 /\ 10 * pa_offset_value = sens
        \/ shift = 1 /\ 10 * pa_offset_value = 1000 * sens

MaxChannels == 3
MaxFlights == 2

frequency == 1
DwellTimes == {2, 4}
Counts == {3, 8}

RECURSIVE cumsum(_)
cumsum(seq) ==
    IF seq = <<>> THEN <<>>
    ELSE LET front == cumsum(SubSeq(seq, 1, Len(seq) - 1))
         IN  Append(front, seq[Len(seq)] + (IF front = <<>> THEN 0 ELSE front[Len(front)]))

\* collect(): the events of a flight
pixel_events(mca_times, mca, start_timestamp) ==
    LET times == cumsum([i \in 1..Len(mca_times) |-> mca_times[i] \div frequency])
        pso_timestamps == [i \in 1..Len(times) |-> times[i] + start_timestamp]
        data == SubSeq(mca, 2, Len(mca))
        pixel_timestamps ==
            [i \in 1..(Len(pso_timestamps) - 1) |->
                (pso_timestamps[i + 1] + pso_timestamps[i]) \div 2]
    IN  [i \in 1..MinOf({Len(pixel_timestamps), Len(data)}) |->
            [data |-> data[i], timestamps |-> pixel_timestamps[i],
             time |-> pixel_timestamps[i]]]

\* every subscription of record_timestamp appends the timestamp
record_timestamp(timestamps, timestamp, callbacks) ==
    timestamps \o [i \in 1..callbacks |-> timestamp]

IonChamberPark ==
    /\ ic_now = 0
    /\ ic_acquiring = FALSE
    /\ ic_mca = <<>>
    /\ ic_mca_times = <<>>
    /\ ic_channel_ts = 0
    /\ ic_subs = 0
    /\ ic_start_timestamp = <<>>
    /\ ic_timestamps = <<>>
    /\ ic_events = <<>>
    /\ ic_flights = 0
    /\ ic_pc = "parked"

\* the ion chamber was made; the scaler holds the data of an earlier count
IonChamberInit ==
    /\ ic_now = 0
    /\ ic_acquiring = FALSE
    /\ ic_mca \in {<<>>, <<3>>}
    /\ ic_mca_times = [i \in 1..Len(ic_mca) |-> 2]
    /\ ic_channel_ts = 0
    /\ ic_subs = 0
    /\ ic_start_timestamp = <<>>
    /\ ic_timestamps = <<>>
    /\ ic_events = <<>>
    /\ ic_flights = 0
    /\ ic_pc = "idle"

\* kickoff(): erase and start, note the start time, empty the timestamps
\* and subscribe record_timestamp, which is run at once with the signal's
\* present timestamp
ICKickoff ==
    /\ ic_pc \in {"idle", "collected"}
    /\ ic_flights < MaxFlights
    /\ ic_flights' = ic_flights + 1
    /\ ic_mca' = <<>>
    /\ ic_mca_times' = <<>>
    /\ ic_acquiring' = TRUE
    /\ ic_start_timestamp' = <<ic_now>>
    /\ ic_subs' = ic_subs + 1
    /\ ic_timestamps' = <<ic_channel_ts>>
    /\ ic_events' = <<>>
    /\ ic_pc' = "flying"
    /\ UNCHANGED <<ic_now, ic_channel_ts>>
    /\ UNCHANGED notIonChamber

\* the scaler finishes a channel: a new datum, and current_channel changes
ChannelAdvance ==
    /\ ic_pc = "flying"
    /\ ic_acquiring
    /\ Len(ic_mca) < MaxChannels
    /\ \E dwell \in DwellTimes, counts \in Counts :
          /\ ic_now' = ic_now + dwell
          /\ ic_mca' = Append(ic_mca, counts)
          /\ ic_mca_times' = Append(ic_mca_times, dwell * frequency)
    /\ ic_channel_ts' = ic_now'
    /\ ic_timestamps' = record_timestamp(ic_timestamps, ic_now', ic_subs)
    /\ UNCHANGED <<ic_acquiring, ic_subs, ic_start_timestamp, ic_events, ic_flights,
                   ic_pc>>
    /\ UNCHANGED notIonChamber

\* complete(): stop_all
ICComplete ==
    /\ ic_pc = "flying"
    /\ ic_acquiring' = FALSE
    /\ ic_pc' = "complete"
    /\ UNCHANGED <<ic_now, ic_mca, ic_mca_times, ic_channel_ts, ic_subs,
                   ic_start_timestamp, ic_timestamps, ic_events, ic_flights>>
    /\ UNCHANGED notIonChamber

\* collect(), run through
ICCollect ==
    /\ ic_pc = "complete"
    /\ ic_events' = pixel_events(ic_mca_times, ic_mca, ic_start_timestamp[1])
    /\ ic_pc' = "collected"
    /\ UNCHANGED <<ic_now, ic_acquiring, ic_mca, ic_mca_times, ic_channel_ts,
                   ic_subs, ic_start_timestamp, ic_timestamps, ic_flights>>
    /\ UNCHANGED notIonChamber

IonChamberNext == ICKickoff \/ ChannelAdvance \/ ICComplete \/ ICCollect

\* C12: kickoff() erases the previous data and starts acquisition,
\* complete() stops it, and the timestamps of the events collect()
\* generates are the timestamps recorded during the flight, one for each
\* change of the current-channel signal after kickoff.
C12_RecordedTimestamps ==
    /\ [][(ic_pc' = "flying" /\ ic_pc # "flying") =>
            ic_mca' = <<>> /\ ic_acquiring']_vars
    /\ [](ic_pc = "complete" => ~ic_acquiring)
    /\ [](ic_pc = "collected" =>
            /\ Len(ic_timestamps) = Len(ic_mca)
            /\ [i \in 1..Len(ic_events) |-> ic_events[i].time] = ic_timestamps)

(***************************************************************************)
(* grid_fly_scan(): snaked axes and metadata  (haven/plans/fly.py)         *)
(*                                                                         *)
(* The plan is given one to three step motors, slowest first, then the     *)
(* flyer, and snake_axes: False, True or a list of up to two axes.         *)
(***************************************************************************)
StepMotors == <<"m1", "m2", "m3">>
MotorLists == {SubSeq(StepMotors, 1, n) : n \in 1..Len(StepMotors)}
GridAxes == SeqToSet(StepMotors) \cup {flyer}
GridSnakeAxes ==
    {[is_list |-> FALSE, flag |-> b, axes |-> <<>>] : b \in BOOLEAN}
    \cup {[is_list |-> TRUE, flag |-> FALSE, axes |-> a] :
             a \in UNION {[1..n -> GridAxes] : n \in 0..2}}
UserMetadata == {EmptyDict, [sample_name |-> "Ni"]}

Contains(seq, x) == \E i \in 1..Len(seq) : seq[i] = x

\* list.remove(x): the list without the first x
remove(seq, x) ==
    LET first == MinOf({i \in 1..Len(seq) : seq[i] = x})
    IN  SubSeq(seq, 1, first - 1) \o SubSeq(seq, first + 1, Len(seq))

\* the snaking of the step motors as the list gives it, the slowest motor
\* included
snaking_unforced(motors, snake_steppers, is_snake_flyer) ==
    [i \in 1..Len(motors) |-> Contains(snake_steppers, motors[i])]
        \o <<is_snake_flyer>>

\* snaking, when snake_axes is a list
snaking_of_list(motors, snake_steppers, is_snake_flyer) ==
    <<FALSE>>
        \o Tail([i \in 1..Len(motors) |-> Contains(snake_steppers, motors[i])])
        \o <<is_snake_flyer>>

\* snaking, when snake_axes is True or False
snaking_of_flag(motors, snake_axes, is_snake_flyer) ==
    <<FALSE>> \o [i \in 1..(Len(motors) - 1) |-> snake_axes] \o <<is_snake_flyer>>

GridPark ==
    /\ gs_args = [motors |-> <<>>]
    /\ gs_snake_steppers = [is_list |-> FALSE, flag |-> FALSE, axes |-> <<>>]
    /\ gs_snake_flyer = FALSE
    /\ gs_snaking = <<>>
    /\ gs_md = EmptyDict
    /\ gs_reverse = FALSE
    /\ gs_lines = <<>>
    /\ gs_pc = "parked"

GridInit ==
    /\ gs_args \in
          {[motors |-> m, snake_axes |-> sn, start |-> r[1], stop |-> r[2], md |-> md] :
              m \in MotorLists, sn \in GridSnakeAxes, r \in Ranges,
              md \in UserMetadata}
    /\ gs_snake_steppers = [is_list |-> FALSE, flag |-> FALSE, axes |-> <<>>]
    /\ gs_snake_flyer = FALSE
    /\ gs_snaking = <<>>
    /\ gs_md = EmptyDict
    /\ gs_reverse = FALSE
    /\ gs_lines = <<>>
    /\ gs_pc = "start"

\* snake_axes is a list: the flyer is taken out of a copy of it
SnakeAxesList ==
    /\ gs_pc = "start"
    /\ gs_args.snake_axes.is_list
    /\ LET axes == gs_args.snake_axes.axes
           has_flyer == Contains(axes, flyer)
           snake_steppers == IF has_flyer THEN remove(axes, flyer) ELSE axes
       IN  /\ gs_snake_steppers' = [is_list |-> TRUE, flag |-> FALSE,
                                    axes |-> snake_steppers]
           /\ gs_snake_flyer' = has_flyer
           /\ gs_snaking' = snaking_of_list(gs_args.motors, snake_steppers, has_flyer)
    /\ gs_pc' = "metadata"
    /\ UNCHANGED <<gs_args, gs_md, gs_reverse, gs_lines>>
    /\ UNCHANGED notGrid

\* snake_axes is True or False
SnakeAxesFlag ==
    /\ gs_pc = "start"
    /\ ~gs_args.snake_axes.is_list
    /\ gs_snake_steppers' = gs_args.snake_axes
    /\ gs_snake_flyer' = gs_args.snake_axes.flag
    /\ gs_snaking' = snaking_of_flag(gs_args.motors, gs_args.snake_axes.flag,
                                     gs_args.snake_axes.flag)
    /\ gs_pc' = "metadata"
    /\ UNCHANGED <<gs_args, gs_md, gs_reverse, gs_lines>>
    /\ UNCHANGED notGrid

\* the metadata are prepared, the caller's metadata are added, and the
\* Snaker is made
PrepareMetadata ==
    /\ gs_pc = "metadata"
    /\ gs_md' = DictUpdate([plan_name |-> "grid_fly_scan",
                            motors |-> gs_args.motors \o <<flyer>>,
                            snaking |-> gs_snaking],
                           gs_args.md)
    /\ gs_reverse' = FALSE
    /\ gs_pc' = "scan"
    /\ UNCHANGED <<gs_args, gs_snake_steppers, gs_snake_flyer, gs_snaking, gs_lines>>
    /\ UNCHANGED notGrid

\* bp.grid_scan calls the Snaker for a step: a line is flown
GridSnakerCall ==
    /\ gs_pc = "scan"
    /\ Len(gs_lines) < MaxLines + 1
    /\ gs_lines' = Append(gs_lines, SnakerRange(gs_reverse, gs_snake_flyer,
                                                gs_args.start, gs_args.stop))
    /\ gs_reverse' = ~gs_reverse
    /\ UNCHANGED <<gs_args, gs_snake_steppers, gs_snake_flyer, gs_snaking, gs_md,
                   gs_pc>>
    /\ UNCHANGED notGrid

GridDone ==
    /\ gs_pc = "scan"
    /\ gs_lines # <<>>
    /\ gs_pc' = "done"
    /\ UNCHANGED <<gs_args, gs_snake_steppers, gs_snake_flyer, gs_snaking, gs_md,
                   gs_reverse, gs_lines>>
    /\ UNCHANGED notGrid

GridNext ==
    \/ SnakeAxesList
    \/ SnakeAxesFlag
    \/ PrepareMetadata
    \/ GridSnakerCall
    \/ GridDone

\* whether snake_axes asks for the axis to be snaked
C16_Snaked(axis) ==
    IF gs_args.snake_axes.is_list
    THEN axis \in SeqToSet(gs_args.snake_axes.axes)
    ELSE gs_args.snake_axes.flag

\* C16: the "snaking" metadata of grid_fly_scan has one entry per motor, in
\* the order of the "motors" metadata (the step motors, then the flyer);
\* the entry of the first motor is False, the entry of a later step motor
\* tells whether snake_axes snakes that motor, and the entry of the flyer
\* tells whether snake_axes is True or a list that holds the flyer, which
\* is also when the Snaker flies every second line in reverse.
C16_SnakingMetadata ==
    gs_pc \in {"scan", "done"} =>
        LET motors == gs_args.motors \o <<flyer>>
            snaking == gs_md["snaking"]
            last == Len(motors)
        IN  /\ gs_md["motors"] = motors
            /\ Len(snaking) = Len(motors)
            /\ snaking[1] = FALSE
            /\ \A i \in 2..(last - 1) : snaking[i] = C16_Snaked(motors[i])
            /\ snaking[last] = C16_Snaked(flyer)
            /\ \A k \in 1..Len(gs_lines) :
                  gs_lines[k] = IF snaking[last] /\ k % 2 = 0
                                THEN <<gs_args.stop, gs_args.start>>
                                ELSE <<gs_args.start, gs_args.stop>>

\* three step motors, snake_axes the list of the second motor and the
\* flyer: the second line was flown in reverse
C16_Witness ==
    /\ gs_pc = "done"
    /\ Len(gs_args.motors) = 3
    /\ gs_args.snake_axes.is_list
    /\ gs_args.snake_axes.axes = <<"m2", flyer>>
    /\ gs_md["snaking"] = <<FALSE, TRUE, FALSE, TRUE>>
    /\ Len(gs_lines) >= 2
    /\ gs_lines[2] = <<gs_args.stop, gs_args.start>>
    /\ gs_lines[2] # gs_lines[1]

(***************************************************************************)
(* RunEngine.__init__()  (haven/run_engine.py)                             *)
(*                                                                         *)
(* The configuration files may name a databroker catalog; the defaults do  *)
(* not.  databroker.catalog holds some of the catalogs.                    *)
(***************************************************************************)
CatalogNames == {"bluesky", "test"}

\* what a configuration file can hold: nothing of the database, or the name
\* of the catalog
DatabaseTables ==
    {EmptyDict}
    \cup {[database |-> [databroker |-> [catalog |-> name]]] : name \in CatalogNames}

\* load_config(): the defaults updated by each file that exists, in order
RECURSIVE load_config(_)
load_config(files) ==
    IF files = <<>> THEN default_config
    ELSE LET before == load_config(SubSeq(files, 1, Len(files) - 1))
             last == files[Len(files)]
         IN  IF last.exists THEN DictUpdate(before, last.tables) ELSE before

\* RunEngine.subscribe(func) twice over
subscribe_twice(callbacks, func) == callbacks \o <<func, func>>

\* RunEngine.subscribe(func): the callback is added to the engine's
subscribe(callbacks, func) == Append(callbacks, func)

EnginePark ==
    /\ re_args = [connect_databroker |-> FALSE]
    /\ re_subs = <<>>
    /\ re_reads = 0
    /\ re_catalog_name = NaN
    /\ re_pc = "parked"

\* RunEngine(connect_databroker=...) is called
EngineInit ==
    /\ re_args \in
          [connect_databroker : BOOLEAN,
           files : [1..Len(CONFIG_FILES) -> [exists : BOOLEAN, tables : DatabaseTables]],
           catalogs : SUBSET CatalogNames]
    /\ re_subs = <<>>
    /\ re_reads = 0
    /\ re_catalog_name = NaN
    /\ re_pc = "new"

\* super().__init__(), then the test of connect_databroker
SuperInit ==
    /\ re_pc = "new"
    /\ re_pc' = IF re_args.connect_databroker THEN "config" ELSE "constructed"
    /\ UNCHANGED <<re_args, re_subs, re_reads, re_catalog_name>>
    /\ UNCHANGED notEngine

\* load_config()["database"]["databroker"]["catalog"]: KeyError when the
\* configuration names no catalog
ReadCatalogName ==
    /\ re_pc = "config"
    /\ re_reads' = re_reads + 1
    /\ LET loaded == load_config(re_args.files)
       IN  IF "database" \in DOMAIN loaded
           THEN /\ re_catalog_name' = <<loaded["database"]["databroker"]["catalog"]>>
                /\ re_pc' = "catalog"
           ELSE /\ re_pc' = "raised"
                /\ UNCHANGED re_catalog_name
    /\ UNCHANGED <<re_args, re_subs>>
    /\ UNCHANGED notEngine

\* databroker.catalog[catalog_name]: KeyError when there is no such catalog
LookupCatalog ==
    /\ re_pc = "catalog"
    /\ re_pc' = IF re_catalog_name[1] \in re_args.catalogs THEN "subscribe" ELSE "raised"
    /\ UNCHANGED <<re_args, re_subs, re_reads, re_catalog_name>>
    /\ UNCHANGED notEngine

\* self.subscribe(catalog.v1.insert)
SubscribeInsert ==
    /\ re_pc = "subscribe"
    /\ re_subs' = subscribe(re_subs, [catalog |-> re_catalog_name[1], func |-> "v1.insert"])
    /\ re_pc' = "constructed"
    /\ UNCHANGED <<re_args, re_reads, re_catalog_name>>
    /\ UNCHANGED notEngine

EngineNext == SuperInit \/ ReadCatalogName \/ LookupCatalog \/ SubscribeInsert

\* the files that exist and name a catalog
C18_Naming ==
    {i \in 1..Len(CONFIG_FILES) :
        re_args.files[i].exists /\ "database" \in DOMAIN re_args.files[i].tables}

\* C18: a RunEngine constructed with connect_databroker=True has exactly
\* one subscription, the insert callback of the catalog the configuration
\* names (the last file that names one); with connect_databroker=False
\* nothing is ever subscribed and the configuration is never read.
C18_SubscribedOnce ==
    /\ (re_pc = "constructed" /\ re_args.connect_databroker) =>
          /\ C18_Naming # {}
          /\ re_subs =
                <<[catalog |->
                      re_args.files[MaxOf(C18_Naming)].tables["database"]["databroker"]["catalog"],
                   func |-> "v1.insert"]>>
          /\ re_reads = 1
    /\ (re_pc # "parked" /\ ~re_args.connect_databroker) =>
          re_subs = <<>> /\ re_reads = 0

\* an engine was constructed with the databroker connected, from two files
\* that name different catalogs
C18_Witness ==
    /\ re_pc = "constructed"
    /\ re_args.connect_databroker
    /\ C18_Naming = {1, 2}
    /\ re_args.files[1].tables # re_args.files[2].tables
    /\ Len(re_subs) = 1
    /\ re_subs[1].catalog = "test"

(***************************************************************************)
(* The specifications: one subsystem runs, the others stay parked.         *)
(***************************************************************************)
SpecCollectInit ==
    CollectInit /\ FlyerPark /\ PlanPark /\ ConfigPark /\ DevicePark
    /\ InstrumentPark /\ BrowserPark /\ MotorPark /\ ConnectPark
    /\ PreampPark /\ IonChamberPark /\ GridPark /\ EnginePark
SpecCollect == SpecCollectInit /\ [][CollectNext]_vars

SpecFlyerInit ==
    FlyerInit /\ CollectPark /\ PlanPark /\ ConfigPark /\ DevicePark
    /\ InstrumentPark /\ BrowserPark /\ MotorPark /\ ConnectPark
    /\ PreampPark /\ IonChamberPark /\ GridPark /\ EnginePark
SpecFlyer == SpecFlyerInit /\ [][FlyerNext]_vars

SpecPlanInit ==
    PlanInit /\ CollectPark /\ FlyerPark /\ ConfigPark /\ DevicePark
    /\ InstrumentPark /\ BrowserPark /\ MotorPark /\ ConnectPark
    /\ PreampPark /\ IonChamberPark /\ GridPark /\ EnginePark
SpecPlan == SpecPlanInit /\ [][PlanNext]_vars

SpecConfigInit ==
    ConfigInit /\ CollectPark /\ FlyerPark /\ PlanPark /\ DevicePark
    /\ InstrumentPark /\ BrowserPark /\ MotorPark /\ ConnectPark
    /\ PreampPark /\ IonChamberPark /\ GridPark /\ EnginePark
SpecConfig == SpecConfigInit /\ [][ConfigNext]_vars

SpecDeviceInit ==
    DeviceInit /\ CollectPark /\ FlyerPark /\ PlanPark /\ ConfigPark
    /\ InstrumentPark /\ BrowserPark /\ MotorPark /\ ConnectPark
    /\ PreampPark /\ IonChamberPark /\ GridPark /\ EnginePark
SpecDevice == SpecDeviceInit /\ [][DeviceNext]_vars

SpecInstrumentInit ==
    InstrumentInit /\ CollectPark /\ FlyerPark /\ PlanPark /\ ConfigPark
    /\ DevicePark /\ BrowserPark /\ MotorPark /\ ConnectPark /\ PreampPark
    /\ IonChamberPark /\ GridPark /\ EnginePark
SpecInstrument == SpecInstrumentInit /\ [][InstrumentNext]_vars

SpecBrowserInit ==
    BrowserInit /\ CollectPark /\ FlyerPark /\ PlanPark /\ ConfigPark
    /\ DevicePark /\ InstrumentPark /\ MotorPark /\ ConnectPark /\ PreampPark
    /\ IonChamberPark /\ GridPark /\ EnginePark
SpecBrowser == SpecBrowserInit /\ [][BrowserNext]_vars

SpecMotorInit ==
    MotorInit /\ CollectPark /\ FlyerPark /\ PlanPark /\ ConfigPark
    /\ DevicePark /\ InstrumentPark /\ BrowserPark /\ ConnectPark
    /\ PreampPark /\ IonChamberPark /\ GridPark /\ EnginePark
SpecMotor == SpecMotorInit /\ [][MotorNext]_vars

SpecConnectInit ==
    ConnectInit /\ BrowserPark /\ CollectPark /\ ConfigPark /\ DevicePark
    /\ FlyerPark /\ InstrumentPark /\ MotorPark /\ PlanPark /\ PreampPark
    /\ IonChamberPark /\ GridPark /\ EnginePark
SpecConnect == SpecConnectInit /\ [][ConnectNext]_vars

SpecPreampInit ==
    PreampInit /\ BrowserPark /\ CollectPark /\ ConfigPark /\ ConnectPark
    /\ DevicePark /\ FlyerPark /\ InstrumentPark /\ MotorPark /\ PlanPark
    /\ IonChamberPark /\ GridPark /\ EnginePark
SpecPreamp == SpecPreampInit /\ [][PreampNext]_vars

SpecIonChamberInit ==
    IonChamberInit /\ BrowserPark /\ CollectPark /\ ConfigPark /\ ConnectPark
    /\ DevicePark /\ FlyerPark /\ InstrumentPark /\ MotorPark /\ PlanPark
    /\ PreampPark /\ GridPark /\ EnginePark
SpecIonChamber == SpecIonChamberInit /\ [][IonChamberNext]_vars

SpecGridInit ==
    GridInit /\ BrowserPark /\ CollectPark /\ ConfigPark /\ ConnectPark
    /\ DevicePark /\ FlyerPark /\ InstrumentPark /\ IonChamberPark
    /\ MotorPark /\ PlanPark /\ PreampPark /\ EnginePark
SpecGrid == SpecGridInit /\ [][GridNext]_vars

SpecEngineInit ==
    EngineInit /\ BrowserPark /\ CollectPark /\ ConfigPark /\ ConnectPark
    /\ DevicePark /\ FlyerPark /\ GridPark /\ InstrumentPark
    /\ IonChamberPark /\ MotorPark /\ PlanPark /\ PreampPark
SpecEngine == SpecEngineInit /\ [][EngineNext]_vars

=============================================================================
